---- MODULE Spec2Model ----
(***************************************************************************)
(* Verification model of colibri-stateless (Rust parts).                   *)
(*                                                                         *)
(*  SpecDriver : the host loops of the Rust bindings (ColibriClient::prove *)
(*               / verify, Colibri::drive_proofer_ctx) driving the C       *)
(*               request driver through its FFI.                           *)
(*  SpecBridge : the kona_bridge HTTP-primary loop with gossip backup and  *)
(*               gossip fallback (http.rs, gossip.rs, types.rs).           *)
(*  SpecFiles  : the preconf file surface: block files, the latest.raw and *)
(*               pre_latest.raw symlinks and the TTL cleanup (utils.rs).   *)
(*  SpecZk*    : the zk_proof guest program (program/src/main.rs).          *)
(*  SpecReg    : storage registration (storage/ffi.rs, lib.rs).            *)
(*  SpecStor   : MemoryStorage and FileStorage (storage/mod.rs).           *)
(*  SpecDedup, SpecTrack : BlockDeduplicator, BlockBitmaskTracker          *)
(*               (kona_bridge types.rs).                                   *)
(*  SpecClient : ColibriClient::prove / verify against a driver that       *)
(*               retries every failed request.                             *)
(*  SpecColibri : Colibri::drive_proofer_ctx against the same driver.      *)
(*  SpecPayload : the block file while the HTTP and the gossip path write  *)
(*               it (http.rs, processing.rs).                              *)
(*  SpecStop   : the bridge thread, its loops and kona_bridge_stop.        *)
(***************************************************************************)
EXTENDS Integers, Sequences, FiniteSets, TLC

VARIABLES
    \* ---- request driver and its host (bindings/rust) ----
    host,          \* which host loop runs: "client" (core/client.rs) or "colibri" (lib.rs)
    cfg,           \* configured server lists: list name -> number of servers
    drv_status,    \* driver: "pending" | "success" | "error" | "dropped"
    reqs,          \* driver: sequence of emitted requests, index = req_ptr
    host_pc,       \* host loop position: "execute" | "requests" | "done"
    batch,         \* requests of the current pending status still to handle
    contacted,     \* ghost: <<req_ptr, list name, server index>> of every HTTP call made
    host_result,   \* "none" | "ok" | "err"
    iterations,    \* lib.rs: loop counter of drive_proofer_ctx
    handled,       \* ghost: req_ptr -> what the host's handle_request did for it
    drv_message,   \* driver: error.message of the terminal error status
    host_message,  \* the text of the Err the host loop returned
    call,          \* the last call made on the Prover / Verifier API: [op, h]
    created,       \* the last prover / verifier construction: its C strings and outcome
    \* ---- kona bridge: HttpHealthTracker and the loops (http.rs / gossip.rs) ----
    current_mode,               \* BridgeMode
    consecutive_failures,
    failure_threshold,
    consecutive_success_blocks,
    http_pc,                    \* "polling": in the poll loop; "fallback": past it, in run_gossip_network
    last_data_hash,             \* http.rs local; 0 = None (one payload per block number)
    last_block_number,          \* http.rs local; 0 = None
    gossip_on,                  \* running gossip loops: "backup" (spawned task), "fallback" (inline)
    gossip_latest,              \* gossip.rs local latest_block_number, per loop
    processed_blocks,           \* BlockDeduplicator.processed_blocks
    \* ---- preconf directory (utils.rs) ----
    dir,                        \* entry name -> [mtime, target]; target = 0 for a regular file
    now,                        \* SystemTime::now(), in ticks
    ttl_duration,               \* the configured TTL, in ticks
    upd,                        \* the writer inside process_http_preconf: [pc, b, prev]
    cleaned,                    \* ghost: what the last cleanup_expired_files removed
    \* ---- ghosts of the bridge ----
    ev,                         \* the last step taken
    fail_run,                   \* failed polls of the interval loop in a row
    gapless_run,                \* HTTP blocks processed in a row without a gap, while HTTP+gossip
    par,                        \* what each source wrote and counted while HTTP+gossip
    \* ---- zk_proof guest program (program/src/main.rs) ----
    zk_in,                      \* the SP1GuestInput of the last run
    zk_res,                     \* "none" | "commit" | the panic that ended the run
    zk_out,                     \* the VerificationOutput committed by the last run
    zk_gidx,                    \* the expected_gidx the last run derived, 0 if none
    zk_chain,                   \* the accepted runs, each built on the one before
    \* ---- storage registration (storage/ffi.rs, lib.rs) ----
    binding,                    \* which binding the process links: "ffi" (storage/ffi.rs) or "lib" (lib.rs)
    GLOBAL_STORAGE,             \* ffi.rs OnceLock: 0 = unset, else the back-end
    STORAGE_REGISTERED_WITH_C,  \* ffi.rs static mut bool
    STORAGE_IMPL,               \* lib.rs RwLock<Option<..>>: 0 = None, else the back-end
    STORAGE_SET,                \* lib.rs AtomicBool
    c_plugin,                   \* the C library's storage plugin: "none" | "ffi" | "lib"
    installs,                   \* ghost: calls of c4_set_storage_config so far
    reg,                        \* per thread: the registration call it is in, [pc, storage]
    \* ---- storage back-ends (storage/mod.rs) ----
    backend,                    \* the back-end in use: "memory" (MemoryStorage) or "file" (FileStorage)
    mem_data,                   \* MemoryStorage.data: key -> value
    fs_files,                   \* FileStorage.base_path: file name -> content
    wr,                         \* the fs::write in flight inside FileStorage::set: [pc, key, value, old]
    got,                        \* the last get: [key, res], and what the map had for key then
    latest,                     \* ghost: key -> value of the most recent set not followed by a delete
    \* ---- BlockBitmaskTracker (kona_bridge types.rs) ----
    current_offset,
    current_mask,               \* the u64 as the set of its set bit positions
    total_gaps_found,
    marked,                     \* ghost: every block number passed to mark_block_processed
    \* ---- kona_bridge: start and stop of the bridge thread (lib.rs) ----
    running,                    \* the Arc<Mutex<bool>> shared by the handle and the loops
    stop_pc,                    \* kona_bridge_stop: "none" | "joining" | "returned"
    task_pc,                    \* position of each async task of the bridge's runtime
    thread_pc                   \* the bridge thread: "running" | "finished"

driverVars == <<host, cfg, drv_status, reqs, host_pc, batch, contacted,
                host_result, iterations, handled, drv_message, host_message,
                call, created>>

bridgeVars == <<current_mode, consecutive_failures, failure_threshold,
                consecutive_success_blocks, http_pc, last_data_hash,
                last_block_number, gossip_on, gossip_latest, processed_blocks,
                ev, fail_run, gapless_run, par>>

dirVars == <<dir, now, ttl_duration, upd, cleaned>>

zkVars == <<zk_in, zk_res, zk_out, zk_gidx, zk_chain>>

regVars == <<binding, GLOBAL_STORAGE, STORAGE_REGISTERED_WITH_C, STORAGE_IMPL, STORAGE_SET,
             c_plugin, installs, reg>>
storVars == <<backend, mem_data, fs_files, wr, got, latest>>
trackVars == <<current_offset, current_mask, total_gaps_found, marked>>
stopVars == <<running, stop_pc, task_pc, thread_pc>>

vars == <<driverVars, bridgeVars, dirVars, zkVars, regVars, storVars, trackVars, stopVars>>

(***************************************************************************)
(* Bounds of the model                                                     *)
(***************************************************************************)
MaxServers == 2
MaxHandles == 2

(***************************************************************************)
(* Generic helpers                                                         *)
(***************************************************************************)
RECURSIVE Pow2(_)
Pow2(n) == IF n = 0 THEN 1 ELSE 2 * Pow2(n - 1)

\* mask & (1 << i) != 0
BitSet(mask, i) == (mask \div Pow2(i)) % 2 = 1

\* mask | (1 << i)
SetBit(mask, i) == IF BitSet(mask, i) THEN mask ELSE mask + Pow2(i)

RECURSIVE SetToSeq(_)
SetToSeq(S) ==
    IF S = {} THEN <<>>
    ELSE LET m == CHOOSE x \in S : \A y \in S : x <= y
         IN <<m>> \o SetToSeq(S \ {m})

(***************************************************************************)
(* bindings/rust: request types and server lists                           *)
(***************************************************************************)
ReqTypes == {"beacon_api", "json_rpc", "checkpointz"}

ListNames == {"checkpointz", "beacon_apis", "eth_rpcs", "proofer_urls"}

Outcomes == {"ok", "err", "err_nul"}

\* core/client.rs: ColibriClient::get_servers_for_request
get_servers_for_request(t) ==
    CASE t = "checkpointz" -> "checkpointz"
      [] t = "beacon_api"  -> "beacon_apis"
      [] OTHER             -> "eth_rpcs"

\* lib.rs: the server list chosen at the head of Colibri::handle_request
colibri_servers(t) ==
    IF t = "beacon_api"
    THEN (IF cfg["proofer_urls"] # 0 THEN "proofer_urls" ELSE "beacon_apis")
    ELSE "eth_rpcs"

ServerList(t) == IF host = "client" THEN get_servers_for_request(t) ELSE colibri_servers(t)

\* the test of the server loop: is server i skipped?
Excluded_ignored(mask, i) == FALSE

Excluded(mask, i) == BitSet(mask, i)

\* the loop giving up at the first server that fails
RECURSIVE ServerLoop_no_failover(_, _, _, _, _, _)
ServerLoop_no_failover(i, n, mask, out, last, cont) ==
    IF i >= n THEN [res |-> last, idx |-> 0, cont |-> cont]
    ELSE IF Excluded(mask, i) THEN ServerLoop_no_failover(i + 1, n, mask, out, last, cont)
    ELSE [res |-> out[i], idx |-> i, cont |-> cont \cup {i}]

\* The loop `for (i, server) in servers.iter().enumerate()` of handle_request:
\* servers i..n-1 remain, out[i] is what execute_request yields at server i.
\* Result: res = "ok" (first success, at index idx) or the last error seen
\* ("none" when no server was tried), and the set of indices contacted.
RECURSIVE ServerLoop(_, _, _, _, _, _)
ServerLoop(i, n, mask, out, last, cont) ==
    IF i >= n THEN [res |-> last, idx |-> 0, cont |-> cont]
    ELSE IF Excluded(mask, i) THEN ServerLoop(i + 1, n, mask, out, last, cont)
    ELSE IF out[i] = "ok" THEN [res |-> "ok", idx |-> i, cont |-> cont \cup {i}]
    ELSE ServerLoop(i + 1, n, mask, out, out[i], cont \cup {i})

\* The error texts, as [kind, type]: type is the request type the text names
\* ("" when it names none).
NoMsg == [kind |-> "", type |-> ""]

\* format!("No servers configured for request type '{:?}'", req.request_type)
NoServersConfigured(t) == [kind |-> "No servers configured", type |-> t]

\* format!("All servers failed for {:?}", req.request_type)
AllServersFailed(t) == [kind |-> "All servers failed", type |-> t]

\* "HTTP {} from {}: {}" of execute_request, "HTTP {status}" or reqwest's text in lib.rs
HttpError == [kind |-> "HTTP", type |-> ""]

\* lib.rs: last_err.unwrap_or_else(|| "All nodes failed".into())
AllNodesFailed == [kind |-> "All nodes failed", type |-> ""]

\* core/client.rs + client.rs: ColibriClient::handle_request.
\* "err" stands for an error whose text has no NUL byte, "err_nul" for one
\* that has (execute_request copies the response body into the message).
handle_request(t, mask, out) ==
    LET n == cfg[get_servers_for_request(t)]
    IN  IF n = 0
        THEN [res |-> "err", idx |-> 0, cont |-> {}, msg |-> NoServersConfigured(t)]
        ELSE LET r == ServerLoop(0, n, mask, out, "none", {})
             IN  IF r.res = "none"
                 THEN [res |-> "err", idx |-> 0, cont |-> r.cont, msg |-> AllServersFailed(t)]
                 ELSE [res |-> r.res, idx |-> r.idx, cont |-> r.cont,
                       msg |-> IF r.res = "ok" THEN NoMsg ELSE HttpError]

\* lib.rs: Colibri::handle_request without a mock handler. The error text is
\* reqwest's or "HTTP <status>": it never carries the response body.
colibri_handle_request(t, mask, out) ==
    LET n == cfg[colibri_servers(t)]
        r == ServerLoop(0, n, mask, out, "none", {})
    IN  IF r.res = "ok"
        THEN [res |-> "ok", idx |-> r.idx, cont |-> r.cont, msg |-> NoMsg]
        ELSE [res |-> "err", idx |-> 0, cont |-> r.cont,
              msg |-> IF r.res = "none" THEN AllNodesFailed ELSE HttpError]

(***************************************************************************)
(* The C request driver behind the FFI (c4_*_execute_json_status,          *)
(* c4_req_set_response, c4_req_set_error): not in src/, modelled from the  *)
(* specification sections 4.1 and 4.4.                                     *)
(***************************************************************************)
Unresolved == {h \in DOMAIN reqs : reqs[h].slot = "none"}

\* errored requests the driver has not yet re-emitted
Retryable == {h \in DOMAIN reqs :
                 /\ reqs[h].slot = "error"
                 /\ ~ \E g \in DOMAIN reqs : reqs[g].retry_of = h}

FreshReq(t, ni) ==
    [type |-> t, mask |-> 0, node_index |-> ni, slot |-> "none", sets |-> 0,
     slot_node |-> 0, slot_msg |-> NoMsg, slot_data |-> 0, retry_of |-> 0]

\* re-emission of the logical request of handle h with the failing index excluded
RetryReq(h) ==
    [type |-> reqs[h].type, mask |-> SetBit(reqs[h].mask, reqs[h].slot_node),
     node_index |-> reqs[h].node_index, slot |-> "none", sets |-> 0,
     slot_node |-> 0, slot_msg |-> NoMsg, slot_data |-> 0, retry_of |-> h]

NewReqs == {FreshReq(t, ni) : t \in ReqTypes, ni \in {0, MaxServers - 1}}
              \cup {RetryReq(h) : h \in Retryable}

\* the batches a step may emit: one request, or two at once
Emissions ==
    {<<a>> : a \in NewReqs} \cup {<<a, b>> : a \in NewReqs, b \in NewReqs}

\* does the mask cover every server configured for the request's type?
Covered(rq) ==
    \A i \in 0..(cfg[ServerList(rq.type)] - 1) : BitSet(rq.mask, i)

\* errored requests whose entire candidate set was excluded
Exhausted == {h \in DOMAIN reqs : reqs[h].slot = "error" /\ Covered(reqs[h])}

\* a cryptographic or structural error of the driver's own
DriverError == [kind |-> "driver", type |-> ""]

\* one `step`: the possible (status, requests, error.message) after it. An
\* exhausted request surfaces as the terminal error, carrying the text that
\* set_error recorded for it.
DriverExecute ==
    IF drv_status # "pending"
    THEN {[status |-> drv_status, reqs |-> reqs, message |-> drv_message]}
    ELSE IF Unresolved # {}
    THEN {[status |-> "pending", reqs |-> reqs, message |-> NoMsg]}
    ELSE IF Exhausted # {}
    THEN {[status |-> "error", reqs |-> reqs, message |-> reqs[h].slot_msg] :
             h \in Exhausted}
    ELSE {[status |-> "success", reqs |-> reqs, message |-> NoMsg],
          [status |-> "error", reqs |-> reqs, message |-> DriverError]}
         \cup {[status |-> "pending", reqs |-> reqs \o e, message |-> NoMsg] :
                  e \in {x \in Emissions : Len(reqs) + Len(x) <= MaxHandles}}

\* the slot is overwritten by a later call
SetSlot_overwrite(rq, h, kind, node, msg, data) ==
    [rq EXCEPT ![h] = [@ EXCEPT !.slot = kind,
                                !.sets = @ + 1,
                                !.slot_node = node,
                                !.slot_msg = msg,
                                !.slot_data = data]]

\* c4_req_set_response / c4_req_set_error on handle h: a slot is set once,
\* a call on a slot already set is refused (sets is a ghost counting the calls)
SetSlot(rq, h, kind, node, msg, data) ==
    IF rq[h].slot # "none"
    THEN [rq EXCEPT ![h] = [@ EXCEPT !.sets = @ + 1]]
    ELSE [rq EXCEPT ![h] = [@ EXCEPT !.slot = kind,
                                     !.sets = @ + 1,
                                     !.slot_node = node,
                                     !.slot_msg = msg,
                                     !.slot_data = data]]

(***************************************************************************)
(* Host loop of ColibriClient::prove / verify (core/client.rs, client.rs)  *)
(***************************************************************************)
\* the bytes server i returned (0: no payload)
Payload(i) == i + 1

\* types/error.rs: ColibriError::CString(NulError), from CString::new in set_error
NulError == [kind |-> "NulError", type |-> ""]

\* ghost: the outcome r of the handle_request call made for handle h; the
\* servers that failed in it are those contacted other than the one that served
Record(h, r) ==
    [g \in DOMAIN handled \cup {h} |->
        IF g = h
        THEN [res |-> r.res,
              served |-> IF r.res = "ok" THEN r.idx ELSE -1,
              failed |-> IF r.res = "ok" THEN r.cont \ {r.idx} ELSE r.cont,
              msg |-> r.msg]
        ELSE handled[g]]

\* let json_str = prover.execute_json_status()?; match status { ... }
\* steps: what the driver's step may answer
ClientExecuteOn(steps) ==
    /\ host = "client" /\ host_pc = "execute"
    /\ \E d \in steps :
          /\ drv_status' = d.status
          /\ drv_message' = d.message
          /\ reqs' = d.reqs
          /\ IF d.status = "pending"
             THEN /\ batch' = SetToSeq({h \in DOMAIN d.reqs : d.reqs[h].slot = "none"})
                  /\ host_pc' = "requests"
                  /\ UNCHANGED <<host_result, host_message>>
             ELSE /\ batch' = <<>>
                  /\ host_pc' = "done"
                  /\ host_result' = IF d.status = "success" THEN "ok" ELSE "err"
                  \* Status::Error { message } => Err(ColibriError::Ffi(message))
                  /\ host_message' = d.message
    /\ UNCHANGED <<created, host, cfg, contacted, iterations, handled, call, bridgeVars, dirVars, zkVars, regVars, storVars, trackVars, stopVars>>

ClientExecute == ClientExecuteOn(DriverExecute)

\* one turn of `for request in requests`: handle_request, then set_response,
\* or set_error(...)? whose CString::new fails on a NUL byte in the message
ClientRequest ==
    /\ host = "client" /\ host_pc = "requests" /\ batch # <<>>
    /\ LET h == Head(batch)
           n == cfg[get_servers_for_request(reqs[h].type)]
       IN \E out \in [0..(n - 1) -> Outcomes] :
            LET r == handle_request(reqs[h].type, reqs[h].mask, out)
                list == get_servers_for_request(reqs[h].type)
            IN /\ contacted' = contacted \cup {<<h, list, i>> : i \in r.cont}
               /\ handled' = Record(h, r)
               /\ IF r.res = "err_nul"
                  THEN \* set_error returns Err: prove returns, the Prover is dropped
                       /\ reqs' = reqs
                       /\ batch' = <<>>
                       /\ host_pc' = "done"
                       /\ host_result' = "err"
                       /\ host_message' = NulError
                       /\ drv_status' = "dropped"
                  ELSE /\ reqs' = SetSlot(reqs, h,
                                     IF r.res = "ok" THEN "response" ELSE "error",
                                     reqs[h].node_index, r.msg,
                                     IF r.res = "ok" THEN Payload(r.idx) ELSE 0)
                       /\ batch' = Tail(batch)
                       /\ host_pc' = IF Tail(batch) = <<>> THEN "execute" ELSE "requests"
                       /\ UNCHANGED <<host_result, host_message, drv_status>>
    /\ UNCHANGED <<created, host, cfg, iterations, drv_message, call, bridgeVars, dirVars, zkVars, regVars, storVars, trackVars, stopVars>>

(***************************************************************************)
(* Host loop of Colibri::drive_proofer_ctx / drive_verify_ctx (lib.rs)     *)
(***************************************************************************)
MaxIterations == 500

\* ColibriError::Proofer("exceeded max iterations")
ExceededMaxIterations == [kind |-> "exceeded max iterations", type |-> ""]

\* the limit checked one trip too late
OverLimit_late(i) == i > MaxIterations + 1

\* if iterations > 500 { return Err(..) }
OverLimit(i) == i > MaxIterations

\* one trip of the loop; steps: what the driver's step may answer
ColibriExecuteOn(steps) ==
    /\ host = "colibri" /\ host_pc = "execute"
    /\ iterations' = iterations + 1
    /\ IF OverLimit(iterations + 1)
       THEN /\ host_pc' = "done" /\ host_result' = "err"
            /\ host_message' = ExceededMaxIterations
            /\ UNCHANGED <<drv_status, drv_message, reqs, batch>>
       ELSE \E d \in steps :
              /\ drv_status' = d.status
              /\ drv_message' = d.message
              /\ reqs' = d.reqs
              /\ IF d.status = "pending"
                 THEN /\ batch' = SetToSeq({h \in DOMAIN d.reqs : d.reqs[h].slot = "none"})
                      /\ host_pc' = "requests"
                      /\ UNCHANGED <<host_result, host_message>>
                 ELSE /\ batch' = <<>>
                      /\ host_pc' = "done"
                      /\ host_result' = IF d.status = "success" THEN "ok" ELSE "err"
                      \* Some("error") => Err(ColibriError::Proofer(msg))
                      /\ host_message' = d.message
    /\ UNCHANGED <<created, host, cfg, contacted, handled, call, bridgeVars, dirVars, zkVars, regVars, storVars, trackVars, stopVars>>

ColibriExecute == ColibriExecuteOn(DriverExecute)

\* self.handle_request(req).await: sets the response or the error itself
ColibriRequest ==
    /\ host = "colibri" /\ host_pc = "requests" /\ batch # <<>>
    /\ LET h == Head(batch)
           list == colibri_servers(reqs[h].type)
           n == cfg[list]
       IN \E out \in [0..(n - 1) -> {"ok", "err"}] :
            LET r == colibri_handle_request(reqs[h].type, reqs[h].mask, out)
            IN /\ contacted' = contacted \cup {<<h, list, i>> : i \in r.cont}
               /\ handled' = Record(h, r)
               /\ reqs' = SetSlot(reqs, h,
                             IF r.res = "ok" THEN "response" ELSE "error",
                             IF r.res = "ok" THEN r.idx ELSE 0, r.msg,
                             IF r.res = "ok" THEN Payload(r.idx) ELSE 0)
               /\ batch' = Tail(batch)
               /\ host_pc' = IF Tail(batch) = <<>> THEN "execute" ELSE "requests"
    /\ UNCHANGED <<created, host, cfg, drv_status, drv_message, host_result, host_message,
                   iterations, call, bridgeVars, dirVars, zkVars, regVars, storVars, trackVars, stopVars>>

(***************************************************************************)
(* Initial states of the parts                                             *)
(***************************************************************************)
MaxThreshold == 2

NoPar == [http_wrote |-> {}, gossip_wrote |-> {}, http_counted |-> {}, gossip_counted |-> {}]

\* the bridge before run_http_primary_with_gossip_fallback has polled
BridgeInit ==
    /\ current_mode = "HttpOnly"
    /\ consecutive_failures = 0
    /\ failure_threshold \in 1..MaxThreshold
    /\ consecutive_success_blocks = 0
    /\ http_pc = "polling"
    /\ last_data_hash = 0
    /\ last_block_number = 0
    /\ gossip_on = {}
    /\ gossip_latest = [g \in {"backup", "fallback"} |-> 0]
    /\ processed_blocks = {}
    /\ ev = [k |-> "init", b |-> 0]
    /\ fail_run = 0
    /\ gapless_run = 0
    /\ par = NoPar

\* no bridge is started
BridgeIdle ==
    /\ current_mode = "HttpOnly"
    /\ consecutive_failures = 0
    /\ failure_threshold = 1
    /\ consecutive_success_blocks = 0
    /\ http_pc = "idle"
    /\ last_data_hash = 0
    /\ last_block_number = 0
    /\ gossip_on = {}
    /\ gossip_latest = [g \in {"backup", "fallback"} |-> 0]
    /\ processed_blocks = {}
    /\ ev = [k |-> "init", b |-> 0]
    /\ fail_run = 0
    /\ gapless_run = 0
    /\ par = NoPar

\* the output directory right after create_dir_all, no writer in it
NoUpdate == [pc |-> "idle", b |-> 0, prev |-> 0]

DirEmpty ==
    /\ dir = [x \in {} |-> 0]
    /\ now = 0
    /\ ttl_duration = 1
    /\ upd = NoUpdate
    /\ cleaned = {}

\* no prover or verifier has been constructed through the model's constructors
NotCreated == [api |-> "none", method |-> <<>>, params |-> <<>>, checkpoint |-> <<>>,
               result |-> "none", ctx |-> FALSE]

\* no call on the Prover / Verifier API outside the host loops
NoCall == [op |-> "none", h |-> 0]

\* the configurations explored: every list holds n servers; proofer_urls
\* (lib.rs only) may also be empty, and so may checkpointz alone (as in
\* test_handle_request_empty_servers)
Configs ==
    {[l \in ListNames |-> IF \/ l = "proofer_urls" /\ ~p
                             \/ l = "checkpointz" /\ ~c
                          THEN 0 ELSE n] :
        n \in 0..MaxServers, p \in BOOLEAN, c \in BOOLEAN}

DriverInit ==
    /\ host \in {"client", "colibri"}
    /\ cfg \in Configs
    \* proofer_urls is read by lib.rs only, checkpointz by ColibriClient only
    /\ host = "client" => cfg["proofer_urls"] = 0
    /\ host = "colibri" => cfg["checkpointz"] = cfg["eth_rpcs"]
    /\ drv_status = "pending"
    /\ reqs = <<>>
    /\ host_pc = "execute"
    /\ batch = <<>>
    /\ contacted = {}
    /\ host_result = "none"
    /\ iterations = 0
    /\ handled = [h \in {} |-> 0]
    /\ drv_message = NoMsg
    /\ host_message = NoMsg
    /\ call = NoCall
    /\ created = NotCreated

\* no prover or verifier is running
DriverIdle ==
    /\ host = "client"
    /\ cfg = [l \in ListNames |-> 0]
    /\ drv_status = "pending"
    /\ reqs = <<>>
    /\ host_pc = "idle"
    /\ batch = <<>>
    /\ contacted = {}
    /\ host_result = "none"
    /\ iterations = 0
    /\ handled = [h \in {} |-> 0]
    /\ drv_message = NoMsg
    /\ host_message = NoMsg
    /\ call = NoCall
    /\ created = NotCreated

DriverNext ==
    \/ ClientExecute
    \/ ClientRequest
    \/ ColibriExecute
    \/ ColibriRequest

\* the guest program has not run
None == [none |-> TRUE]

ZkIdle ==
    /\ zk_in = None
    /\ zk_res = "none"
    /\ zk_out = None
    /\ zk_gidx = 0
    /\ zk_chain = <<>>

\* no storage is registered
NoReg == [pc |-> "idle", storage |-> 0]

RegIdle ==
    /\ binding = "ffi"
    /\ GLOBAL_STORAGE = 0
    /\ STORAGE_REGISTERED_WITH_C = FALSE
    /\ STORAGE_IMPL = 0
    /\ STORAGE_SET = FALSE
    /\ c_plugin = "none"
    /\ installs = 0
    /\ reg = [t \in {} |-> NoReg]

\* no back-end is constructed
NoWrite == [pc |-> "idle", key |-> <<>>, value |-> <<>>, old |-> <<>>]
NoGet == [key |-> <<>>, res |-> <<>>, expect |-> <<>>, racing |-> "none", old |-> <<>>, new |-> <<>>]

StorIdle ==
    /\ backend = "memory"
    /\ mem_data = [k \in {} |-> <<>>]
    /\ fs_files = [f \in {} |-> <<>>]
    /\ wr = NoWrite
    /\ got = NoGet
    /\ latest = [k \in {} |-> <<>>]

\* BlockBitmaskTracker::new
TrackNew ==
    /\ current_offset = 0
    /\ current_mask = {}
    /\ total_gaps_found = 0
    /\ marked = {}

\* the async tasks of the bridge's runtime: the main future
\* (run_http_primary_with_gossip_fallback), the gossip backup task it spawns,
\* the TTL cleanup task
Tasks == {"http", "backup", "cleanup"}

\* no bridge thread was started
StopIdle ==
    /\ running = FALSE
    /\ stop_pc = "none"
    /\ task_pc = [t \in Tasks |-> "off"]
    /\ thread_pc = "finished"

RestIdle == RegIdle /\ StorIdle /\ TrackNew /\ StopIdle

\* the bindings alone: no bridge, an empty directory
DriverSpecInit == DriverInit /\ BridgeIdle /\ DirEmpty /\ ZkIdle /\ RestIdle

SpecDriver == DriverSpecInit /\ [][DriverNext]_vars

(***************************************************************************)
(* C1: every request the driver emits is resolved exactly once (one        *)
(* set_response or one set_error) before the run ends; none is resolved    *)
(* twice and none is left unresolved.                                      *)
(***************************************************************************)
C1_ResolvedExactlyOnce ==
    /\ \A h \in DOMAIN reqs : reqs[h].sets <= 1
    /\ host_pc = "done" => \A h \in DOMAIN reqs : reqs[h].sets = 1

(***************************************************************************)
(* C2: the host never contacts server i of the list selected by the        *)
(* request's type when bit i of the request's exclude_mask is set.         *)
(***************************************************************************)
C2_ExcludedNeverContacted ==
    \A c \in contacted :
        /\ c[2] = ServerList(reqs[c[1]].type)
        /\ ~ BitSet(reqs[c[1]].mask, c[3])

\* a request with bit 0 excluded was served by a server of its list
C2_Witness ==
    \E c \in contacted :
        /\ reqs[c[1]].mask # 0
        /\ BitSet(reqs[c[1]].mask, 0)
        /\ c[3] = 1

(***************************************************************************)
(* C11: with two beacon endpoints of which the first always errors, every  *)
(* beacon_api logical request is retried with exclude_mask bit 0 set and   *)
(* completes against endpoint 1.                                           *)
(***************************************************************************)
\* the run so far: two beacon endpoints serve beacon_api, endpoint 0 has
\* failed whenever it was asked and endpoint 1 has answered whenever asked
FirstAlwaysErrors ==
    /\ cfg["beacon_apis"] = 2
    /\ ServerList("beacon_api") = "beacon_apis"
    /\ \A h \in DOMAIN handled :
          reqs[h].type = "beacon_api" =>
              /\ handled[h].served # 0
              /\ 1 \notin handled[h].failed

\* C11 as stated: in a completed run, each beacon_api logical request has a
\* retry whose mask has bit 0 set and which endpoint 1 served
C11_RetriedWithBit0 ==
    (FirstAlwaysErrors /\ host_pc = "done" /\ host_result = "ok") =>
        \A h \in DOMAIN reqs :
            (reqs[h].type = "beacon_api" /\ reqs[h].retry_of = 0) =>
                \E g \in DOMAIN handled :
                    /\ reqs[g].retry_of = h
                    /\ BitSet(reqs[g].mask, 0)
                    /\ handled[g].served = 1

\* C11 amended: each beacon_api request completes against endpoint 1 inside
\* the one handle_request call that tried endpoint 0 first; it is answered
\* with set_response, never re-emitted, and its exclude_mask stays 0
C11_FailoverInsideCall ==
    FirstAlwaysErrors =>
        \A h \in DOMAIN handled :
            reqs[h].type = "beacon_api" =>
                /\ handled[h].failed = {0}
                /\ handled[h].served = 1
                /\ reqs[h].slot = "response"
                /\ reqs[h].mask = 0
                /\ reqs[h].retry_of = 0
                /\ ~ \E g \in DOMAIN reqs : reqs[g].retry_of = h

C11_Witness ==
    /\ FirstAlwaysErrors
    /\ host_pc = "done" /\ host_result = "ok"
    /\ \E h \in DOMAIN handled :
          /\ reqs[h].type = "beacon_api"
          /\ handled[h].failed = {0}
          /\ handled[h].served = 1

(***************************************************************************)
(* C12: a request whose exclude_mask covers every configured server of its *)
(* request type ends the run with a terminal error whose message names the *)
(* request type.                                                           *)
(***************************************************************************)
\* the answered requests whose non-empty mask covered all their servers
AllExcluded == {h \in Exhausted : reqs[h].mask # 0}

C12_ExhaustedNamesType ==
    (AllExcluded # {} /\ host_pc = "done") =>
        /\ host_result = "err"
        /\ \E h \in AllExcluded : host_message.type = reqs[h].type

(***************************************************************************)
(* C13: if the server list of a request type is empty, prove and verify    *)
(* end with an error on the first emission of a request of that type,      *)
(* without contacting any server for it, and the error reports that no     *)
(* servers are configured for that request type.                           *)
(***************************************************************************)
\* the requests ColibriClient has handled whose server list is empty
NoServers ==
    {h \in DOMAIN handled :
        host = "client" /\ cfg[get_servers_for_request(reqs[h].type)] = 0}

C13_NoServersConfigured ==
    /\ \A h \in NoServers :
          /\ reqs[h].retry_of = 0
          /\ ~ \E g \in DOMAIN reqs : reqs[g].retry_of = h
          /\ ~ \E c \in contacted : c[1] = h
    /\ (NoServers # {} /\ host_pc = "done") =>
          /\ host_result = "err"
          /\ \E h \in NoServers : host_message = NoServersConfigured(reqs[h].type)

(***************************************************************************)
(* C14: set_error never ends a proof or verification run by itself: the    *)
(* driver is stepped again after it, and the run ends only when a step     *)
(* returned the terminal status success or error.                          *)
(***************************************************************************)
C14_SetErrorNotTerminal ==
    /\ host_pc = "done" =>
          /\ drv_status \in {"success", "error"}
          /\ batch = <<>>
          /\ Unresolved = {}
    /\ (host_pc = "done" /\ host_result = "err") => host_message = drv_message

(***************************************************************************)
(* C15: the node index passed back with a resolution identifies the server *)
(* that handled the request: with set_response the server whose payload is *)
(* delivered, with set_error a server that failed, so that the index the   *)
(* driver adds to the exclude mask is that of a server that really failed. *)
(***************************************************************************)
C15_NodeIndexIsHandler ==
    \A h \in DOMAIN handled :
        /\ reqs[h].slot = "response" => reqs[h].slot_node = handled[h].served
        /\ (reqs[h].slot = "error" /\ handled[h].failed # {}) =>
               reqs[h].slot_node \in handled[h].failed
        /\ \A g \in DOMAIN reqs :
               reqs[g].retry_of = h =>
                   \A i \in 0..(MaxServers - 1) :
                       (BitSet(reqs[g].mask, i) /\ ~ BitSet(reqs[h].mask, i)) =>
                           i \in handled[h].failed

(***************************************************************************)
(* The Prover / Verifier wrappers called directly (prover.rs,              *)
(* core/verifier.rs): a caller that steps the driver and sets responses    *)
(* and errors on any handle it was given, also one already resolved.       *)
(***************************************************************************)
MaxApiHandles == 1
MaxCalls == 2

\* Prover::execute_json_status
ApiExecute ==
    /\ host = "api"
    /\ \E d \in DriverExecute :
          /\ Len(d.reqs) <= MaxApiHandles
          /\ drv_status' = d.status
          /\ drv_message' = d.message
          /\ reqs' = d.reqs
    /\ call' = [op |-> "execute", h |-> 0]
    /\ UNCHANGED <<created, host, cfg, host_pc, batch, contacted, host_result, iterations,
                   handled, host_message, bridgeVars, dirVars, zkVars, regVars, storVars, trackVars, stopVars>>

\* Prover::set_response / Verifier::set_response: forwards to c4_req_set_response
ApiSetResponse ==
    /\ host = "api"
    /\ \E h \in DOMAIN reqs, node \in 0..(MaxServers - 1) :
          /\ reqs[h].sets < MaxCalls
          /\ reqs' = SetSlot(reqs, h, "response", node, NoMsg, Payload(node))
          /\ call' = [op |-> "set_response", h |-> h]
    /\ UNCHANGED <<created, host, cfg, drv_status, drv_message, host_pc, batch, contacted,
                   host_result, iterations, handled, host_message, bridgeVars, dirVars, zkVars, regVars, storVars, trackVars, stopVars>>

\* Prover::set_error / Verifier::set_error: CString::new(error)?, then
\* c4_req_set_error; on a NUL byte in the text nothing is forwarded
ApiSetError ==
    /\ host = "api"
    /\ \E h \in DOMAIN reqs, node \in 0..(MaxServers - 1), nul \in BOOLEAN :
          /\ reqs[h].sets < MaxCalls
          /\ reqs' = IF nul THEN reqs
                     ELSE SetSlot(reqs, h, "error", node, HttpError, 0)
          /\ host_message' = IF nul THEN NulError ELSE host_message
          /\ call' = [op |-> "set_error", h |-> h]
    /\ UNCHANGED <<created, host, cfg, drv_status, drv_message, host_pc, batch, contacted,
                   host_result, iterations, handled, bridgeVars, dirVars, zkVars, regVars, storVars, trackVars, stopVars>>

\* Prover::new succeeded: a driver context, no request yet
ApiInit ==
    /\ host = "api"
    /\ cfg = [l \in ListNames |-> MaxServers]
    /\ drv_status = "pending"
    /\ reqs = <<>>
    /\ host_pc = "idle"
    /\ batch = <<>>
    /\ contacted = {}
    /\ host_result = "none"
    /\ iterations = 0
    /\ handled = [h \in {} |-> 0]
    /\ drv_message = NoMsg
    /\ host_message = NoMsg
    /\ call = NoCall
    /\ created = NotCreated

ApiNext ==
    \/ ApiExecute
    \/ ApiSetResponse
    \/ ApiSetError

ApiSpecInit == ApiInit /\ BridgeIdle /\ DirEmpty /\ ZkIdle /\ RestIdle

SpecApi == ApiSpecInit /\ [][ApiNext]_vars

MaxLen == 2

Bytes == {0, 1}

Strs == UNION {[1..n -> Bytes] : n \in 0..MaxLen}

HasNul(str) == \E i \in DOMAIN str : str[i] = 0

\* CString::new(s): Err(NulError) on an interior NUL byte
CString_new(str) == IF HasNul(str) THEN "NulError" ELSE "ok"

\* serde_json::to_string of a JSON string value: quoted, control bytes escaped
to_string(str) ==
    <<3>> \o [i \in DOMAIN str |-> IF str[i] = 0 THEN 2 ELSE str[i]] \o <<3>>

\* the outcome of a constructor: a context exists only with result "ok"
Outcome(api, m, p, c, res) ==
    [api |-> api, method |-> m, params |-> p, checkpoint |-> c,
     result |-> res, ctx |-> (res = "ok")]

\* Prover::new: CString::new(method)?, CString::new(params)?, c4_create_prover_ctx
ProverNew ==
    /\ created = NotCreated
    /\ \E m \in Strs, p \in Strs, null \in BOOLEAN :
          created' = Outcome("Prover::new", m, p, <<>>,
                        IF CString_new(m) # "ok" \/ CString_new(p) # "ok" THEN "err"
                        ELSE IF null THEN "err" ELSE "ok")
    /\ UNCHANGED <<host, cfg, drv_status, reqs, host_pc, batch, contacted, host_result,
                   iterations, handled, drv_message, host_message, call,
                   bridgeVars, dirVars, zkVars, regVars, storVars, trackVars, stopVars>>

\* Verifier::new: three CString::new(..)?, then c4_verify_create_ctx
VerifierNew ==
    /\ created = NotCreated
    /\ \E m \in Strs, a \in Strs, c \in Strs, null \in BOOLEAN :
          created' = Outcome("Verifier::new", m, a, c,
                        IF \/ CString_new(m) # "ok"
                           \/ CString_new(a) # "ok"
                           \/ CString_new(c) # "ok" THEN "err"
                        ELSE IF null THEN "err" ELSE "ok")
    /\ UNCHANGED <<host, cfg, drv_status, reqs, host_pc, batch, contacted, host_result,
                   iterations, handled, drv_message, host_message, call,
                   bridgeVars, dirVars, zkVars, regVars, storVars, trackVars, stopVars>>

\* Colibri::create_proof: CString::new(call.method.clone()).unwrap(),
\* CString::new(serde_json::to_string(&call.params).unwrap()).unwrap()
ColibriCreateProof ==
    /\ created = NotCreated
    /\ \E m \in Strs, v \in Strs, null \in BOOLEAN :
          LET p == to_string(v)
          IN created' = Outcome("Colibri::create_proof", m, p, <<>>,
                           IF CString_new(m) # "ok" \/ CString_new(p) # "ok" THEN "panic"
                           ELSE IF null THEN "err" ELSE "ok")
    /\ UNCHANGED <<host, cfg, drv_status, reqs, host_pc, batch, contacted, host_result,
                   iterations, handled, drv_message, host_message, call,
                   bridgeVars, dirVars, zkVars, regVars, storVars, trackVars, stopVars>>

\* Colibri::verify_proof: as create_proof, with the JSON of trusted_block_hashes
ColibriVerifyProof ==
    /\ created = NotCreated
    /\ \E m \in Strs, v \in Strs, t \in Strs, null \in BOOLEAN :
          LET p == to_string(v)
              c == to_string(t)
          IN created' = Outcome("Colibri::verify_proof", m, p, c,
                           IF \/ CString_new(m) # "ok"
                              \/ CString_new(p) # "ok"
                              \/ CString_new(c) # "ok" THEN "panic"
                           ELSE IF null THEN "err" ELSE "ok")
    /\ UNCHANGED <<host, cfg, drv_status, reqs, host_pc, batch, contacted, host_result,
                   iterations, handled, drv_message, host_message, call,
                   bridgeVars, dirVars, zkVars, regVars, storVars, trackVars, stopVars>>

CreateNext ==
    \/ ProverNew
    \/ VerifierNew
    \/ ColibriCreateProof
    \/ ColibriVerifyProof

CreateSpecInit == DriverIdle /\ BridgeIdle /\ DirEmpty /\ ZkIdle /\ RestIdle

SpecCreate == CreateSpecInit /\ [][CreateNext]_vars

(***************************************************************************)
(* C17: creating a prover or verifier whose method, params or checkpoint   *)
(* string holds an embedded NUL byte fails with an error returned to the   *)
(* caller, never panics, and creates no driver context.                    *)
(***************************************************************************)
C17_NulIsAnError ==
    (\/ HasNul(created.method)
     \/ HasNul(created.params)
     \/ HasNul(created.checkpoint)) =>
        /\ created.result = "err"
        /\ ~ created.ctx

(***************************************************************************)
(* kona_bridge: the preconf directory (utils.rs, http.rs)                  *)
(***************************************************************************)
Raw(n) == <<"raw", n>>          \* block_<chain>_<n>.raw
Json(n) == <<"json", n>>        \* block_<chain>_<n>.json
Latest == <<"latest.raw", 0>>
PreLatest == <<"pre_latest.raw", 0>>

\* tokio_fs::write / tokio_fs::symlink / tokio_fs::remove_file on directory d
write(d, name, t) ==
    [x \in DOMAIN d \cup {name} |-> IF x = name THEN [mtime |-> t, target |-> 0] ELSE d[x]]

symlink(d, target, name, t) ==
    [x \in DOMAIN d \cup {name} |-> IF x = name THEN [mtime |-> t, target |-> target] ELSE d[x]]

remove_file(d, name) == [x \in DOMAIN d \ {name} |-> d[x]]

BlockFiles(d) == {x[2] : x \in {y \in DOMAIN d : y[1] = "raw"}}

\* where a symlink points, 0 when there is no such symlink
LinkTarget(d, name) == IF name \in DOMAIN d THEN d[name].target ELSE 0

\* find_previous_block_file: the second highest block number among the
\* block files, 0 (None) with fewer than two files
BlockNumberLimit == 1000000000

find_previous_block_file(d) ==
    LET real == {n \in BlockFiles(d) : n < BlockNumberLimit}
    IN  IF Cardinality(real) < 2 THEN 0
        ELSE LET top == CHOOSE m \in real : \A n \in real : n <= m
             IN  CHOOSE m \in real \ {top} : \A n \in real \ {top} : n <= m

\* update_symlinks_lib run to its end
update_symlinks_lib(d, new, t) ==
    LET prev == find_previous_block_file(d)
        d1   == IF prev # 0 THEN symlink(remove_file(d, PreLatest), prev, PreLatest, t)
                ELSE d
    IN  symlink(remove_file(d1, Latest), new, Latest, t)

\* process_http_preconf run to its end: the block file, the symlinks, the
\* metadata file. process_preconf_with_correct_format leaves the same.
process_http_preconf(d, b, t) ==
    write(update_symlinks_lib(write(d, Raw(b), t), b, t), Json(b), t)

SetDir(d) ==
    /\ dir' = d
    /\ UNCHANGED <<now, ttl_duration, upd, cleaned>>

(***************************************************************************)
(* kona_bridge: BlockDeduplicator (types.rs)                               *)
(***************************************************************************)
DedupMaxSize == 200

\* the max_size / 2 highest numbers of S
RECURSIVE Newest(_, _)
Newest(S, k) ==
    IF k = 0 \/ S = {} THEN {}
    ELSE LET top == CHOOSE m \in S : \A n \in S : n <= m
         IN  {top} \cup Newest(S \ {top}, k - 1)

\* BlockDeduplicator::is_duplicate: the answer, and the set it leaves
is_duplicate(S, n) == n \in S

\* is_duplicate without the cleanup of old numbers
is_duplicate_set_unpruned(S, n) == S \cup {n}

is_duplicate_set(S, n) ==
    IF n \in S THEN S
    ELSE LET T == S \cup {n}
         IN  IF Cardinality(T) > DedupMaxSize THEN Newest(T, DedupMaxSize \div 2) ELSE T

\* BlockDeduplicator::mark_processed
mark_processed(S, n) == S \cup {n}

(***************************************************************************)
(* kona_bridge: run_http_primary_with_gossip_fallback (http.rs)            *)
(***************************************************************************)
GapThreshold == 50
SuccessThreshold == 50

Min(a, b) == IF a < b THEN a ELSE b
Max(a, b) == IF a < b THEN b ELSE a

\* u64::saturating_sub
saturating_sub(a, b) == IF a > b THEN a - b ELSE 0

\* `missing_blocks >= 50`
LargeGap_strict(missing) == missing > GapThreshold

LargeGap(missing) == missing >= GapThreshold

\* `tracker.consecutive_failures >= tracker.failure_threshold`
ThresholdReached_strict(failures, threshold) == failures > threshold

ThresholdReached(failures, threshold) == failures >= threshold

\* the poll loop is still turning: it was not left by the break after the
\* threshold, and the test at its head finds no GossipFallback
InPollLoop_unguarded == http_pc \in {"polling", "fallback"}

InPollLoop == http_pc = "polling" /\ current_mode # "GossipFallback"

\* the Ok(Some(..)) arm for a payload that differs from the last one: block b,
\* ok = process_http_preconf succeeds, gf = the block try_fill_block_gaps
\* fetches and writes (0: none)
HttpNewData(b, ok, gf) ==
    LET hybrid    == current_mode = "HttpPlusGossip"
        d1        == IF ok THEN process_http_preconf(dir, b, now) ELSE dir
        dup       == ok /\ hybrid /\ is_duplicate(processed_blocks, b)
        pb1       == IF ok /\ hybrid THEN is_duplicate_set(processed_blocks, b)
                     ELSE processed_blocks
        processed == ok /\ ~dup
        has_last  == last_block_number # 0
        gap       == saturating_sub(b, last_block_number)
        gapped    == processed /\ has_last /\ gap > 1
        escalate  == gapped /\ LargeGap(gap - 1) /\ current_mode = "HttpOnly"
        first     == processed /\ ~has_last
        csb1      == IF escalate THEN 0
                     ELSE IF first THEN consecutive_success_blocks + 1
                     ELSE consecutive_success_blocks
        demote    == first /\ hybrid /\ csb1 >= SuccessThreshold
        mode1     == IF escalate THEN "HttpPlusGossip"
                     ELSE IF demote THEN "HttpOnly" ELSE current_mode
        d2        == IF gapped /\ gf # 0 THEN process_http_preconf(d1, gf, now) ELSE d1
    IN  /\ last_data_hash' = b
        /\ consecutive_failures' = 0
        /\ SetDir(d2)
        /\ current_mode' = mode1
        /\ consecutive_success_blocks' = IF demote THEN 0 ELSE csb1
        /\ gossip_on' = IF escalate THEN gossip_on \cup {"backup"}
                        ELSE IF demote THEN gossip_on \ {"backup"} ELSE gossip_on
        /\ gossip_latest' = IF escalate /\ "backup" \notin gossip_on
                            THEN [gossip_latest EXCEPT !["backup"] = 0]
                            ELSE gossip_latest
        /\ last_block_number' = IF processed THEN b ELSE last_block_number
        /\ processed_blocks' = IF processed THEN mark_processed(pb1, b) ELSE pb1
        /\ ev' = [k |-> IF ~ok THEN "http_process_err"
                        ELSE IF dup THEN "http_dup" ELSE "http_block",
                  b |-> b]
        /\ fail_run' = 0
        /\ gapless_run' = IF mode1 = "HttpPlusGossip" /\ hybrid /\ processed
                             /\ has_last /\ b = last_block_number + 1
                          THEN Min(gapless_run + 1, SuccessThreshold)
                          ELSE 0
        /\ par' = [par EXCEPT
                     !.http_wrote = IF ok /\ hybrid THEN @ \cup {b} ELSE @,
                     !.http_counted = IF processed /\ hybrid THEN @ \cup {b} ELSE @]
        /\ UNCHANGED <<failure_threshold, http_pc, driverVars, zkVars, regVars, storVars, trackVars, stopVars>>

\* The block numbers the sequencer's sources hand to the bridge: the first
\* LowBlocks blocks, and the blocks past a hole of GapThreshold numbers.
FirstBlock == 1
LowBlocks == 2

Served(limit) ==
    {n \in FirstBlock..limit : n < FirstBlock + LowBlocks \/ n > GapThreshold}

\* what the endpoint may serve next: the following block, or one that leaves
\* GapThreshold - 1 or GapThreshold block numbers out
HttpBlocks(limit) ==
    LET base == Max(last_block_number, last_data_hash)
    IN  IF base = 0 THEN {FirstBlock}
        ELSE {base + 1, base + GapThreshold, base + GapThreshold + 1} \cap Served(limit)

\* what try_fill_block_gaps may fetch after block b: nothing usable, b again,
\* or the first missing block
GapFills(b) ==
    IF last_block_number # 0 /\ b > last_block_number + 1
    THEN {0, b, last_block_number + 1} ELSE {0}

MaxBlock == 54

HttpPollNew ==
    /\ InPollLoop
    /\ \E b \in HttpBlocks(MaxBlock), ok \in BOOLEAN :
          \E gf \in (IF ok THEN GapFills(b) ELSE {0}) : HttpNewData(b, ok, gf)

\* the Ok(Some(..)) arm for the payload already seen: `continue`
HttpPollSame ==
    /\ InPollLoop
    /\ last_data_hash # 0
    /\ ev' = [k |-> "http_same", b |-> last_data_hash]
    /\ fail_run' = 0
    /\ UNCHANGED <<current_mode, consecutive_failures, failure_threshold,
                   consecutive_success_blocks, http_pc, last_data_hash,
                   last_block_number, gossip_on, gossip_latest, processed_blocks,
                   gapless_run, par, dirVars, driverVars, zkVars, regVars, storVars, trackVars, stopVars>>

\* the Err arm: count the failure; at the threshold switch to GossipFallback,
\* leave the loop and run run_gossip_network inline
HttpPollFailed ==
    /\ InPollLoop
    /\ LET failures == consecutive_failures + 1
           switch   == ThresholdReached(failures, failure_threshold)
       IN  /\ consecutive_failures' = failures
           /\ current_mode' = IF switch THEN "GossipFallback" ELSE current_mode
           /\ http_pc' = IF switch THEN "fallback" ELSE http_pc
           /\ gossip_on' = IF switch THEN gossip_on \cup {"fallback"} ELSE gossip_on
           /\ gossip_latest' = IF switch THEN [gossip_latest EXCEPT !["fallback"] = 0]
                               ELSE gossip_latest
    /\ ev' = [k |-> "http_fail", b |-> 0]
    /\ fail_run' = fail_run + 1
    /\ gapless_run' = 0
    /\ UNCHANGED <<failure_threshold, consecutive_success_blocks, last_data_hash,
                   last_block_number, processed_blocks, par, dirVars, driverVars, zkVars, regVars, storVars, trackVars, stopVars>>

(***************************************************************************)
(* kona_bridge: run_gossip_network (gossip.rs), one received payload       *)
(***************************************************************************)
GossipPayload(inst, n, ok) ==
    LET newer == n > gossip_latest[inst]
        dup   == newer /\ is_duplicate(processed_blocks, n)
        pb1   == IF newer THEN is_duplicate_set(processed_blocks, n) ELSE processed_blocks
        done  == newer /\ ~dup /\ ok
        both  == done /\ inst = "backup" /\ current_mode = "HttpPlusGossip"
    IN  /\ inst \in gossip_on
        /\ gossip_latest' = IF done THEN [gossip_latest EXCEPT ![inst] = n] ELSE gossip_latest
        /\ processed_blocks' = IF done THEN mark_processed(pb1, n) ELSE pb1
        /\ SetDir(IF done THEN process_http_preconf(dir, n, now) ELSE dir)
        /\ par' = [par EXCEPT !.gossip_wrote = IF both THEN @ \cup {n} ELSE @,
                              !.gossip_counted = IF both THEN @ \cup {n} ELSE @]
        /\ ev' = [k |-> IF ~newer THEN "gossip_old"
                        ELSE IF dup THEN "gossip_dup"
                        ELSE IF ok THEN "gossip_block" ELSE "gossip_process_err",
                  b |-> n]
        /\ UNCHANGED <<current_mode, consecutive_failures, failure_threshold,
                       consecutive_success_blocks, http_pc, last_data_hash,
                       last_block_number, gossip_on, fail_run, gapless_run,
                       driverVars, zkVars, regVars, storVars, trackVars, stopVars>>

\* what the network may deliver to a loop: around the HTTP head and around
\* the loop's own head
GossipBlocks(inst) ==
    {last_block_number, last_block_number + 1,
     gossip_latest[inst], gossip_latest[inst] + 1} \cap Served(MaxBlock)

GossipReceive ==
    \E inst \in gossip_on : \E n \in GossipBlocks(inst), ok \in BOOLEAN :
        GossipPayload(inst, n, ok)

BridgeNext ==
    \/ HttpPollNew
    \/ HttpPollSame
    \/ HttpPollFailed
    \/ GossipReceive

\* the bridge alone, started on an empty directory
BridgeSpecInit == BridgeInit /\ DirEmpty /\ DriverIdle /\ ZkIdle /\ RestIdle

SpecBridge == BridgeSpecInit /\ [][BridgeNext]_vars

\* the steps of the poll loop
HttpPoll == HttpPollNew \/ HttpPollSame \/ HttpPollFailed

\* the same loops, scheduled: neither the poll loop nor a gossip loop that
\* can take a step is starved
FairSpecBridge ==
    SpecBridge /\ WF_vars(HttpPoll) /\ WF_vars(GossipReceive)

(***************************************************************************)
(* The bridge on a healthy endpoint: every poll yields a new block that    *)
(* processes, the gossip network only repeats what HTTP has delivered.     *)
(***************************************************************************)
SteadyMaxBlock == 104

SteadyPoll ==
    /\ InPollLoop
    /\ \E b \in HttpBlocks(SteadyMaxBlock) : \E gf \in GapFills(b) : HttpNewData(b, TRUE, gf)

SteadyGossip ==
    /\ last_block_number # 0
    /\ \E inst \in gossip_on : GossipPayload(inst, last_block_number, TRUE)

SteadyNext ==
    \/ SteadyPoll
    \/ SteadyGossip

SpecBridgeSteady == BridgeSpecInit /\ [][SteadyNext]_vars

\* the kinds of step the poll loop takes
HttpKinds == {"http_block", "http_dup", "http_process_err", "http_same", "http_fail"}

(***************************************************************************)
(* C3: in HTTP+gossip mode, once SuccessThreshold (50) HTTP blocks in a    *)
(* row were processed without a gap, the mode is HTTP-only again and the   *)
(* gossip backup task is stopped.                                          *)
(***************************************************************************)
C3_DemotedAfter50 ==
    gapless_run >= SuccessThreshold =>
        (current_mode = "HttpOnly" /\ "backup" \notin gossip_on)

(***************************************************************************)
(* C5: after failure_threshold failed polls in a row the mode is           *)
(* GossipFallback, and no step of the poll loop is taken while the mode    *)
(* is GossipFallback.                                                      *)
(***************************************************************************)
C5_FallbackAfterFailures ==
    [][/\ fail_run' >= failure_threshold' => current_mode' = "GossipFallback"
       /\ current_mode = "GossipFallback" => ~ (ev' # ev /\ ev'.k \in HttpKinds)]_vars

\* the last of two failed polls in a row switched the mode, and the inline
\* gossip loop has delivered a block since
C5_Witness ==
    /\ failure_threshold = 2
    /\ fail_run = failure_threshold
    /\ current_mode = "GossipFallback"
    /\ ev.k = "gossip_block"

(***************************************************************************)
(* C6 (as stated): after the switch to GossipFallback, once the gossip     *)
(* loop delivers blocks the bridge takes up HTTP polling again.            *)
(***************************************************************************)
C6_HttpResumes ==
    (current_mode = "GossipFallback" /\ ev.k = "gossip_block") ~> (ev.k \in HttpKinds)

(***************************************************************************)
(* C6 (amended): GossipFallback is final. From a state in GossipFallback   *)
(* the mode stays GossipFallback, the poll loop stays left and no step is  *)
(* a step of the poll loop, whatever the gossip loop delivers.             *)
(***************************************************************************)
C6_FallbackIsFinal ==
    [][current_mode = "GossipFallback" =>
          /\ current_mode' = "GossipFallback"
          /\ http_pc' = "fallback"
          /\ ev'.k \notin HttpKinds]_vars

\* in GossipFallback the gossip loop has delivered a block beyond the last
\* HTTP block
C6_Witness ==
    /\ current_mode = "GossipFallback"
    /\ ev.k = "gossip_block"
    /\ gossip_latest["fallback"] > last_block_number
    /\ last_block_number # 0

(***************************************************************************)
(* C7: when the poll loop in HTTP-only mode processes a block that leaves  *)
(* GapThreshold (50) or more block numbers out after the block it          *)
(* processed before, the mode becomes HTTP+gossip, the gossip backup task  *)
(* runs, and the poll loop goes on.                                        *)
(***************************************************************************)
C7_LargeGapEscalates ==
    [][(/\ current_mode = "HttpOnly"
        /\ last_block_number # 0
        /\ last_block_number' - last_block_number - 1 >= GapThreshold)
       => (/\ current_mode' = "HttpPlusGossip"
           /\ "backup" \in gossip_on'
           /\ http_pc' = "polling")]_vars

\* after such a gap the bridge is in HTTP+gossip mode with the backup task,
\* and the poll loop has processed the next block
C7_Witness ==
    /\ current_mode = "HttpPlusGossip"
    /\ "backup" \in gossip_on
    /\ http_pc = "polling"
    /\ ev.k = "http_block"
    /\ gapless_run >= 1

(***************************************************************************)
(* C8: while HTTP and gossip run side by side, a block delivered by both   *)
(* is processed by one of them only: its file is written once and it is    *)
(* counted as processed once.                                              *)
(***************************************************************************)
C8_ProcessedOnce ==
    /\ par.http_wrote \cap par.gossip_wrote = {}
    /\ par.http_counted \cap par.gossip_counted = {}

(***************************************************************************)
(* The preconf directory step by step: process_http_preconf with           *)
(* update_symlinks_lib one file operation at a time, the clock, and        *)
(* cleanup_expired_files (utils.rs, http.rs).                              *)
(***************************************************************************)
MaxFileBlock == 2
MaxTime == 2
MaxTtl == 1

\* tokio_fs::write of the block file, then the directory scan of
\* update_symlinks_lib
FileWriteBlock ==
    /\ upd.pc = "idle"
    /\ \E b \in 1..MaxFileBlock :
          LET d    == write(dir, Raw(b), now)
              prev == find_previous_block_file(d)
          IN  /\ dir' = d
              /\ upd' = [pc |-> IF prev # 0 THEN "rm_pre" ELSE "rm_latest",
                         b |-> b, prev |-> prev]
    /\ UNCHANGED <<now, ttl_duration, cleaned, driverVars, bridgeVars, zkVars, regVars, storVars, trackVars, stopVars>>

\* remove_file(pre_latest.raw)
RemovePreLatest ==
    /\ upd.pc = "rm_pre"
    /\ dir' = remove_file(dir, PreLatest)
    /\ upd' = [upd EXCEPT !.pc = "ln_pre"]
    /\ UNCHANGED <<now, ttl_duration, cleaned, driverVars, bridgeVars, zkVars, regVars, storVars, trackVars, stopVars>>

\* symlink(prev, pre_latest.raw)
LinkPreLatest ==
    /\ upd.pc = "ln_pre"
    /\ dir' = symlink(dir, upd.prev, PreLatest, now)
    /\ upd' = [upd EXCEPT !.pc = "rm_latest"]
    /\ UNCHANGED <<now, ttl_duration, cleaned, driverVars, bridgeVars, zkVars, regVars, storVars, trackVars, stopVars>>

\* remove_file(latest.raw)
RemoveLatest ==
    /\ upd.pc = "rm_latest"
    /\ dir' = remove_file(dir, Latest)
    /\ upd' = [upd EXCEPT !.pc = "ln_latest"]
    /\ UNCHANGED <<now, ttl_duration, cleaned, driverVars, bridgeVars, zkVars, regVars, storVars, trackVars, stopVars>>

\* symlink(new_latest_filename, latest.raw)
LinkLatest ==
    /\ upd.pc = "ln_latest"
    /\ dir' = symlink(dir, upd.b, Latest, now)
    /\ upd' = [upd EXCEPT !.pc = "json"]
    /\ UNCHANGED <<now, ttl_duration, cleaned, driverVars, bridgeVars, zkVars, regVars, storVars, trackVars, stopVars>>

\* tokio_fs::write of the metadata file; process_http_preconf returns
WriteJson ==
    /\ upd.pc = "json"
    /\ dir' = write(dir, Json(upd.b), now)
    /\ upd' = NoUpdate
    /\ UNCHANGED <<now, ttl_duration, cleaned, driverVars, bridgeVars, zkVars, regVars, storVars, trackVars, stopVars>>

Tick ==
    /\ now < MaxTime
    /\ now' = now + 1
    /\ UNCHANGED <<dir, ttl_duration, upd, cleaned, driverVars, bridgeVars, zkVars, regVars, storVars, trackVars, stopVars>>

\* cleanup_expired_files: the entries it removes. Every entry of the
\* directory ends in .raw or .json; the age is that of the entry itself
\* (DirEntry::metadata does not follow a symlink).
Expired(d, t, ttl) == {x \in DOMAIN d : x # Latest /\ t - d[x].mtime > ttl}

CleanupExpiredFiles ==
    /\ LET gone == Expired(dir, now, ttl_duration)
       IN  /\ dir' = [x \in DOMAIN dir \ gone |-> dir[x]]
           /\ cleaned' = {[name |-> x, age |-> now - dir[x].mtime] : x \in gone}
    /\ UNCHANGED <<now, ttl_duration, upd, driverVars, bridgeVars, zkVars, regVars, storVars, trackVars, stopVars>>

FilesInit ==
    /\ dir = [x \in {} |-> 0]
    /\ now = 0
    /\ ttl_duration \in 1..MaxTtl
    /\ upd = NoUpdate
    /\ cleaned = {}

FilesNext ==
    \/ FileWriteBlock
    \/ RemovePreLatest
    \/ LinkPreLatest
    \/ RemoveLatest
    \/ LinkLatest
    \/ WriteJson
    \/ Tick
    \/ CleanupExpiredFiles

\* the directory alone
FilesSpecInit == FilesInit /\ BridgeIdle /\ DriverIdle /\ ZkIdle /\ RestIdle

SpecFiles == FilesSpecInit /\ [][FilesNext]_vars

(***************************************************************************)
(* C4: whenever a block file exists and no update is under way,            *)
(* latest.raw points to the block file with the highest number, and with   *)
(* two or more block files pre_latest.raw points to the one with the       *)
(* second highest number, whatever the order the blocks were written in.   *)
(***************************************************************************)
C4_LatestIsHighest ==
    LET files == BlockFiles(dir)
    IN  (upd.pc = "idle" /\ files # {}) =>
           /\ LinkTarget(dir, Latest) = CHOOSE m \in files : \A n \in files : n <= m
           /\ Cardinality(files) >= 2 =>
                 LinkTarget(dir, PreLatest) = find_previous_block_file(dir)

(***************************************************************************)
(* C9: an update of the symlinks never leaves latest.raw or                *)
(* pre_latest.raw missing once it has existed: no step of the writer       *)
(* takes a symlink away.                                                   *)
(***************************************************************************)
C9_SymlinkNeverMissing ==
    [][upd' # upd =>
          /\ Latest \in DOMAIN dir => Latest \in DOMAIN dir'
          /\ PreLatest \in DOMAIN dir => PreLatest \in DOMAIN dir']_vars

(***************************************************************************)
(* C10: the TTL cleanup removes only .raw and .json block files older      *)
(* than the TTL, and never latest.raw or pre_latest.raw.                   *)
(***************************************************************************)
C10_CleanupSparesSymlinks ==
    \A c \in cleaned :
        /\ c.age > ttl_duration
        /\ c.name[1] \in {"raw", "json"}
        /\ c.name \notin {Latest, PreLatest}

(***************************************************************************)
(* zk_proof: the SP1 guest program that verifies one sync-committee period *)
(* transition, directly or on top of a previous proof (program/src/main.rs)*)
(***************************************************************************)
MaxPeriod == 2

\* u8::count_ones
RECURSIVE count_ones(_)
count_ones(b) == IF b = 0 THEN 0 ELSE (b % 2) + count_ones(b \div 2)

RECURSIVE SumOnes(_, _)
SumOnes(bits, i) ==
    IF i > Len(bits) THEN 0 ELSE count_ones(bits[i]) + SumOnes(bits, i + 1)

\* bits.iter().map(|b| b.count_ones()).sum()
count_bits_set_512(bits) == SumOnes(bits, 1)

\* u64::from_le_bytes
RECURSIVE LeValue(_, _)
LeValue(b, i) == IF i > Len(b) THEN 0 ELSE b[i] + 256 * LeValue(b, i + 1)

from_le_bytes(b) == LeValue(b, 1)

\* u64::to_le_bytes, as the host fills slot_bytes
RECURSIVE LeBytes(_, _)
LeBytes(n, k) == IF k = 0 THEN <<>> ELSE <<n % 256>> \o LeBytes(n \div 256, k - 1)

to_le_bytes(n) == LeBytes(n, 8)

\* x >> 13: the sync-committee period of a slot (32 * 256 = 8192 slots)
shr13(x) == x \div Pow2(13)

\* the check `prev_output.next_period != current_period`, weakened to allow gaps
PeriodContinuity_gaps(prev, pd) ==
    prev.next_period <= shr13(from_le_bytes(pd.slot_bytes))

\* !(prev_output.next_period != current_period)
PeriodContinuity(prev, pd) ==
    prev.next_period = shr13(from_le_bytes(pd.slot_bytes))

\* the check comparing the previous proof's start root instead of its end root
KeyContinuity_start(prev, pd) == prev.current_keys_root = pd.current_keys_root

\* !(prev_output.next_keys_root != proof_data.current_keys_root)
KeyContinuity(prev, pd) == prev.next_keys_root = pd.current_keys_root

\* !(period != proof_data.next_period - 1): for next_period = 0 the u64
\* subtraction overflows (a panic with overflow checks, u64::MAX without,
\* which no period equals)
PeriodConsistent(pd) ==
    /\ pd.next_period # 0
    /\ shr13(from_le_bytes(pd.slot_bytes)) = pd.next_period - 1

\* a simple majority instead of two thirds
ParticipationOk_majority(participants) == ~ (participants * 2 < 512)

\* !(participants * 3 < 512 * 2)
ParticipationOk(participants) == ~ (participants * 3 < 512 * 2)

\* a 32-byte value (a chunk or a digest) is a number below HashSpace, read
\* little-endian; sha256_merkle is a stand-in compression function on them
HashSpace == 65521

\* SHA256(left || right)
sha256_merkle(left, right) ==
    ((left % HashSpace) * 257 + (right % HashSpace) * 263 + 1) % HashSpace

\* the first four bytes of a 32-byte value
Prefix4(c) == <<c % 256, (c \div 256) % 256, (c \div 65536) % 256, (c \div 16777216) % 256>>

\* a 48-byte public key k: its first 32 bytes, and its last 16 bytes padded
KeyChunk0(k) == k \div 2

KeyChunk1(k) == k % 2

\* current_keys is held by what generates it: `len` whole keys, the i-th being
\* i * v mod 8, but for the key at position `at`, which is `to`
NumKeys(keys) == keys.len

KeyAt(keys, i) == IF i = keys.at THEN keys.to ELSE (i * keys.v) % 8

\* _root_hash: `out` is left at the caller's zeroes when the key is missing
RECURSIVE _root_hash(_, _)
_root_hash(keys, gindex) ==
    IF gindex >= 512
    THEN LET i == gindex - 512
         IN IF i + 1 > NumKeys(keys) THEN 0
            ELSE sha256_merkle(KeyChunk0(KeyAt(keys, i + 1)), KeyChunk1(KeyAt(keys, i + 1)))
    ELSE sha256_merkle(_root_hash(keys, gindex * 2), _root_hash(keys, gindex * 2 + 1))

create_root_hash(keys) == _root_hash(keys, 1)

\* 31 - x.leading_zeros(), for x > 0
RECURSIVE floorlog2_u32(_)
floorlog2_u32(x) == IF x <= 1 THEN 0 ELSE 1 + floorlog2_u32(x \div 2)

ssz_add_gindex(parent, child) ==
    LET depth == floorlog2_u32(child)
        base == Pow2(depth)
    IN  parent * Pow2(depth) + (child - base)

NEXT_SYNC_COMMITTEE_GINDEX_DENEB == 55
NEXT_SYNC_COMMITTEE_GINDEX_ELECTRA == 87
SIGNING_DATA_STATE_ROOT_GINDEX == 19

\* the layouts exchanged: 10 nodes taken for Electra, 11 for Deneb
next_sync_committee_gindex_swapped(n) ==
    CASE n = 10 -> NEXT_SYNC_COMMITTEE_GINDEX_ELECTRA
      [] n = 11 -> NEXT_SYNC_COMMITTEE_GINDEX_DENEB
      [] OTHER -> 0

\* match proof_data.proof.len() / 32 { 10 => .., 11 => .., n => panic }; 0: the panic
next_sync_committee_gindex(n) ==
    CASE n = 10 -> NEXT_SYNC_COMMITTEE_GINDEX_DENEB
      [] n = 11 -> NEXT_SYNC_COMMITTEE_GINDEX_ELECTRA
      [] OTHER -> 0

\* a proof is its whole 32-byte nodes and the number of bytes after the last
ProofLen(proof) == 32 * Len(proof.nodes) + proof.extra

\* hash nodes[from..to] onto root, g telling left from right at each level
RECURSIVE Walk(_, _, _, _, _)
Walk(nodes, from, to, g, root) ==
    IF from > to THEN [g |-> g, root |-> root]
    ELSE Walk(nodes, from + 1, to, g \div 2,
              IF g % 2 = 1 THEN sha256_merkle(nodes[from], root)
                           ELSE sha256_merkle(root, nodes[from]))

\* verify_merkle_proof: proof.chunks(32), stopping at a chunk shorter than 32
verify_merkle_proof(proof, gindex, root) ==
    Walk(proof.nodes, 1, Len(proof.nodes), gindex, root).root

\* a check of the first byte only
DomainOk_first_byte(domain) == Prefix4(domain)[1] = 7

\* !(domain[0..4] != [0x07, 0x00, 0x00, 0x00])
DomainOk(domain) == Prefix4(domain) = <<7, 0, 0, 0>>

\* the comparison dropped
KeysRootOk_unchecked(calculated_root, pd) == TRUE

\* !(calculated_root != proof_data.current_keys_root)
KeysRootOk(calculated_root, pd) == calculated_root = pd.current_keys_root

\* what the checks the model does not compute (SP1 proof, its public values,
\* the slot hash, BLS) find: the first of them that fails, in program order
RecFaults == {"verify_sp1_proof", "Public Values Hash Mismatch",
              "Failed to deserialize prev public values"}

CoreFaults == {"Invalid slot verification", "Signature must be 96 bytes"}

Faults == {"none", "Invalid signature verification"} \cup RecFaults \cup CoreFaults

\* the start root taken from the step itself even when it builds on a proof
OutputCurrentKeysRoot_step(rec, pd) == pd.current_keys_root

\* output_current_keys_root: the step's current_keys_root, overwritten by the
\* previous proof's when there is one
OutputCurrentKeysRoot(rec, pd) ==
    IF rec = None THEN pd.current_keys_root ELSE rec.current_keys_root

\* pub fn main(): the panic that ends the run or "commit", the committed
\* output, and the expected_gidx the run derived (0 when it did not get there)
main(inp) ==
    LET pd == inp.proof_data
        rec == inp.recursion_data
        f == inp.fault
        output_current_keys_root == OutputCurrentKeysRoot(rec, pd)
        total_nodes == ProofLen(pd.proof) \div 32
        gindex == next_sync_committee_gindex(total_nodes)
        expected_gidx == ssz_add_gindex(SIGNING_DATA_STATE_ROOT_GINDEX, gindex) * 2
        root == verify_merkle_proof(pd.proof, expected_gidx, pd.next_keys_root)
        state_root_nodes == total_nodes - 4
        state == Walk(pd.proof.nodes, 1, state_root_nodes, expected_gidx, pd.next_keys_root)
        header_len == ProofLen(pd.proof) - state_root_nodes * 32
        domain == pd.proof.nodes[total_nodes]
        header == Walk(pd.proof.nodes, state_root_nodes + 1, state_root_nodes + 3,
                       SIGNING_DATA_STATE_ROOT_GINDEX, state.root)
        participants == count_bits_set_512(pd.signature_bits)
        before ==
            IF rec # None /\ f \in RecFaults THEN f
            ELSE IF rec # None /\ ~ PeriodContinuity(rec, pd) THEN "Period mismatch"
            ELSE IF rec # None /\ ~ KeyContinuity(rec, pd) THEN "Key mismatch: Chain broken"
            ELSE IF ~ PeriodConsistent(pd) THEN "Invalid period"
            ELSE IF ProofLen(pd.proof) < 96 THEN "Proof too short"
            ELSE IF f = "Invalid slot verification" THEN f
            ELSE IF ~ KeysRootOk(create_root_hash(pd.current_keys), pd)
                 THEN "Invalid current keys root"
            ELSE IF gindex = 0 THEN "Unexpected Merkle proof depth"
            ELSE "none"
        after ==
            IF total_nodes # 10 /\ total_nodes # 11 THEN "Unexpected proof node count"
            ELSE IF state.g # SIGNING_DATA_STATE_ROOT_GINDEX
                 THEN "Internal error: expected to reach gindex 19 after state proof"
            ELSE IF header_len # 4 * 32 THEN "Unexpected header proof length"
            ELSE IF ~ DomainOk(domain) THEN "Invalid domain type"
            ELSE IF header.g # 2
                 THEN "Internal error: expected to reach BeaconBlockHeader root at gindex 2"
            ELSE IF f = "Signature must be 96 bytes" THEN f
            ELSE IF Len(pd.signature_bits) # 64 THEN "Signature bits must be 64 bytes"
            ELSE IF participants < 1 THEN "Invalid sync committee participation"
            ELSE IF ~ ParticipationOk(participants)
                 THEN "Insufficient sync committee participation"
            ELSE IF f = "Invalid signature verification" THEN f
            ELSE "commit"
        res == IF before # "none" THEN before ELSE after
    IN  [res |-> res,
         expected_gidx |-> IF before = "none" THEN expected_gidx ELSE 0,
         out |-> IF res = "commit"
                 THEN [current_keys_root |-> output_current_keys_root,
                       next_keys_root |-> pd.next_keys_root,
                       next_period |-> pd.next_period,
                       attested_header_root |-> header.root,
                       domain |-> domain]
                 ELSE None]

\* the inputs explored: two committees of 512 keys, and their roots
Committee(v) == [len |-> 512, v |-> v, at |-> 0, to |-> 0]

Committees == {Committee(1), Committee(3)}

Roots == {create_root_hash(keys) : keys \in Committees}

KeysOf(r) == CHOOSE keys \in Committees : create_root_hash(keys) = r

Slots == {q * Pow2(13) + o : q \in 0..MaxPeriod, o \in {0, Pow2(13) - 1}}

\* a 64-byte participation bitfield with its n lowest bits set
Bitfield(n) ==
    [i \in 1..64 |-> IF 8 * i <= n THEN 255
                     ELSE IF 8 * (i - 1) >= n THEN 0
                     ELSE Pow2(n - 8 * (i - 1)) - 1]

BitCounts == {0, 1, 340, 341, 342, 343, 512}

\* a bitfield one byte short, all of its 504 bits set
ShortBitfield == [i \in 1..63 |-> 255]

\* a branch of n whole nodes ending in the domain node d, and x bytes more
Branch(n, d, x) == [nodes |-> [i \in 1..n |-> IF i = n THEN d ELSE 100 + i], extra |-> x]

DOMAIN_SYNC_COMMITTEE == 7

ProofDatas ==
    {[current_keys_root |-> c, next_keys_root |-> n, next_period |-> q,
      current_keys |-> KeysOf(c), slot_bytes |-> to_le_bytes(x),
      signature_bits |-> b, proof |-> Branch(10, DOMAIN_SYNC_COMMITTEE, 0)] :
        c \in Roots, n \in Roots, q \in 0..(MaxPeriod + 1), x \in Slots,
        b \in {Bitfield(k) : k \in BitCounts} \cup {ShortBitfield}}

\* the public values of a previous proof
VerificationOutputs ==
    [current_keys_root : Roots, next_keys_root : Roots,
     next_period : 0..(MaxPeriod + 1)]

\* the run of the guest program on input inp
Run(inp) ==
    \E r \in {main(inp)} :
        /\ zk_in' = inp
        /\ zk_res' = r.res
        /\ zk_out' = r.out
        /\ zk_gidx' = r.expected_gidx
        /\ UNCHANGED <<driverVars, bridgeVars, dirVars, regVars, storVars, trackVars, stopVars>>

\* one run on an input read from the host, direct or recursive
ZkMain ==
    /\ zk_res = "none"
    /\ \E pd \in ProofDatas, rec \in VerificationOutputs \cup {None}, f \in Faults :
          /\ rec = None => f \notin RecFaults
          /\ Run([proof_data |-> pd, recursion_data |-> rec, fault |-> f])
    /\ UNCHANGED zk_chain

ZkSpecInit == ZkIdle /\ DriverIdle /\ BridgeIdle /\ DirEmpty /\ RestIdle

SpecZk == ZkSpecInit /\ [][ZkMain]_vars

(***************************************************************************)
(* The core checks of one direct run: the branch, the domain and the keys  *)
(* vary, the period is right.                                              *)
(***************************************************************************)
MaxNodes == 12

\* 7 and its neighbours: another first byte, and a second, third or fourth
\* byte that is not zero
Domains == {DOMAIN_SYNC_COMMITTEE, 0, 8, 7 + 256, 7 + 65536, 7 + 16777216}

Branches == {Branch(n, d, x) : n \in 2..MaxNodes, d \in Domains, x \in {0, 5}}

\* the committee, the committee with one key changed in its last 16 bytes, in
\* its first 32 bytes, the committee without its last key, with one key
\* more, and no key at all
KeyLists ==
    {Committee(1),
     [Committee(1) EXCEPT !.at = 7, !.to = 6],
     [Committee(1) EXCEPT !.at = 512, !.to = 2],
     [Committee(1) EXCEPT !.len = 511],
     [Committee(1) EXCEPT !.len = 513],
     [Committee(1) EXCEPT !.len = 0]}

ClaimedRoots == {create_root_hash(keys) : keys \in KeyLists}

\* updates of period 1: every key list against every claimed root under a
\* well-formed branch, and every branch under the committee and its root
CoreUpdates ==
    LET update(keys, c, proof) ==
            [current_keys_root |-> c,
             next_keys_root |-> CHOOSE r \in Roots : r # create_root_hash(Committee(1)),
             next_period |-> 2, current_keys |-> keys,
             slot_bytes |-> to_le_bytes(Pow2(13) + 5),
             signature_bits |-> Bitfield(342), proof |-> proof]
    IN  {update(keys, c, Branch(10, DOMAIN_SYNC_COMMITTEE, 0)) :
             keys \in KeyLists, c \in ClaimedRoots}
        \cup {update(Committee(1), create_root_hash(Committee(1)), proof) :
                 proof \in Branches}

\* one direct run of the guest program on such an update
ZkCore ==
    /\ zk_res = "none"
    /\ \E pd \in CoreUpdates, f \in {"none", "Invalid signature verification"} :
          Run([proof_data |-> pd, recursion_data |-> None, fault |-> f])
    /\ UNCHANGED zk_chain

SpecZkCore == ZkSpecInit /\ [][ZkCore]_vars

(***************************************************************************)
(* C21: the generalized index for next_sync_committee is selected by the   *)
(* length of the branch alone: 10 nodes are verified against gindex 55     *)
(* (1262 from the signing root), 11 nodes against gindex 87 (2478), and a  *)
(* branch of any other length is rejected.                                 *)
(***************************************************************************)
C21_GindexByBranchLength ==
    LET len == ProofLen(zk_in.proof_data.proof)
    IN  zk_res # "none" =>
          /\ zk_gidx # 0 => \/ len \div 32 = 10 /\ zk_gidx = 1262
                            \/ len \div 32 = 11 /\ zk_gidx = 2478
          /\ zk_res = "commit" => (zk_gidx # 0 /\ len \in {320, 352})
          /\ zk_res \notin {"Unexpected proof node count",
                            "Internal error: expected to reach gindex 19 after state proof",
                            "Internal error: expected to reach BeaconBlockHeader root at gindex 2"}

\* an accepted update with an Electra branch of 11 nodes
C21_Witness ==
    /\ zk_res = "commit"
    /\ Len(zk_in.proof_data.proof.nodes) = 11
    /\ zk_gidx = 2478

(***************************************************************************)
(* C22: an update is accepted only if the first four bytes of the signing  *)
(* domain, the last 32 bytes of the branch, are 0x07 0x00 0x00 0x00; an    *)
(* update with any other prefix is rejected.                               *)
(***************************************************************************)
C22_DomainSyncCommittee ==
    LET nodes == zk_in.proof_data.proof.nodes
    IN  zk_res = "commit" =>
          /\ nodes[Len(nodes)] % 256 = 7
          /\ nodes[Len(nodes)] \div 256 = 0
          /\ zk_out.domain = nodes[Len(nodes)]

\* an accepted Deneb update: its domain node is DOMAIN_SYNC_COMMITTEE
C22_Witness ==
    /\ zk_res = "commit"
    /\ Len(zk_in.proof_data.proof.nodes) = 10
    /\ zk_out.domain = 7

\* SSZ merkleization: pairs of one layer hashed into the layer above
RECURSIVE Merkleize(_)
Merkleize(layer) ==
    IF Len(layer) = 1 THEN layer[1]
    ELSE Merkleize([i \in 1..(Len(layer) \div 2) |->
                       sha256_merkle(layer[2 * i - 1], layer[2 * i])])

\* hash_tree_root of the public keys as a vector of 512 Bytes48: one leaf per
\* key, the hash of its two chunks, and zero chunks where keys are missing
hash_tree_root(keys) ==
    Merkleize([i \in 1..512 |->
                  IF i <= NumKeys(keys)
                  THEN sha256_merkle(KeyAt(keys, i) \div 2, KeyAt(keys, i) % 2)
                  ELSE 0])

(***************************************************************************)
(* C23: for every accepted transition the hash-tree-root recomputed from   *)
(* the 512 supplied current public keys equals the claimed                 *)
(* current_keys_root; a mismatch rejects the input.                        *)
(***************************************************************************)
C23_KeysRootRecomputed ==
    zk_res # "none" =>
        LET htr == hash_tree_root(zk_in.proof_data.current_keys)
        IN  /\ zk_res = "commit" => htr = zk_in.proof_data.current_keys_root
            /\ htr # zk_in.proof_data.current_keys_root => zk_out = None

\* an accepted transition with all 512 keys supplied
C23_Witness ==
    /\ zk_res = "commit"
    /\ NumKeys(zk_in.proof_data.current_keys) = 512
    /\ zk_in.proof_data.current_keys_root = hash_tree_root(Committee(1))

(***************************************************************************)
(* Aggregation: each run builds on the proof committed by the run before.  *)
(***************************************************************************)
MaxDepth == 3

ChainUpdates ==
    {[current_keys_root |-> c, next_keys_root |-> n, next_period |-> q,
      current_keys |-> KeysOf(c), slot_bytes |-> to_le_bytes(x * Pow2(13) + 5),
      signature_bits |-> Bitfield(342), proof |-> Branch(10, DOMAIN_SYNC_COMMITTEE, 0)] :
        c \in Roots, n \in Roots, q \in 0..(MaxPeriod + 1), x \in 0..MaxPeriod}

\* the public values of the last accepted run, none for the first run
PrevOutput == IF zk_chain = <<>> THEN None ELSE zk_chain[Len(zk_chain)].out

\* one more run: direct when nothing was proven yet, recursive after that;
\* the host goes on aggregating only while its runs are accepted
ZkStep ==
    /\ zk_res \in {"none", "commit"}
    /\ Len(zk_chain) < MaxDepth
    /\ \E pd \in ChainUpdates,
          f \in {"none", "Public Values Hash Mismatch", "Invalid signature verification"} :
          /\ PrevOutput = None => f \notin RecFaults
          /\ Run([proof_data |-> pd, recursion_data |-> PrevOutput, fault |-> f])
          /\ zk_chain' = IF zk_res' = "commit"
                         THEN Append(zk_chain, [proof_data |-> pd, out |-> zk_out'])
                         ELSE zk_chain

SpecZkChain == ZkSpecInit /\ [][ZkStep]_vars

(***************************************************************************)
(* C24: at any recursion depth the current_keys_root in the public output  *)
(* of an aggregated proof is the current_keys_root of the first (anchor)   *)
(* proof of the chain, and next_keys_root and next_period are those of the *)
(* latest step.                                                            *)
(***************************************************************************)
C24_AnchorRootKept ==
    \A i \in 1..Len(zk_chain) :
        /\ zk_chain[i].out.current_keys_root = zk_chain[1].proof_data.current_keys_root
        /\ zk_chain[i].out.next_keys_root = zk_chain[i].proof_data.next_keys_root
        /\ zk_chain[i].out.next_period = zk_chain[i].proof_data.next_period

\* a chain of three proofs whose last step starts from another committee than
\* the anchor
C24_Witness ==
    /\ Len(zk_chain) = 3
    /\ zk_chain[3].proof_data.current_keys_root # zk_chain[1].proof_data.current_keys_root

\* the number of bits set in a bitfield, counted bit by bit
OnesOf == [b \in 0..255 |-> Cardinality({k \in 0..7 : (b \div (2 ^ k)) % 2 = 1})]

RECURSIVE PopcountFrom(_, _)
PopcountFrom(bits, i) ==
    IF i > Len(bits) THEN 0 ELSE OnesOf[bits[i]] + PopcountFrom(bits, i + 1)

Popcount(bits) == PopcountFrom(bits, 1)

(***************************************************************************)
(* C18: an update is accepted only if at least two thirds of the 512 seats *)
(* participated, i.e. at least 342 bits of the participation bitfield are  *)
(* set; every update with fewer set bits is rejected.                      *)
(***************************************************************************)
C18_TwoThirdsParticipation ==
    zk_res # "none" =>
        /\ zk_res = "commit" => Popcount(zk_in.proof_data.signature_bits) >= 342
        /\ Popcount(zk_in.proof_data.signature_bits) < 342 =>
               (zk_res # "commit" /\ zk_out = None)

\* an update with exactly 342 participants is accepted
C18_Witness ==
    /\ zk_res = "commit"
    /\ Popcount(zk_in.proof_data.signature_bits) = 342

(***************************************************************************)
(* C19: a recursive proof is accepted only if the previous proof's         *)
(* next_keys_root equals the current step's current_keys_root: the         *)
(* committee committed as next at period P is the one used as current at   *)
(* period P+1.                                                             *)
(***************************************************************************)
C19_KeyContinuity ==
    (zk_res = "commit" /\ zk_in.recursion_data # None) =>
        /\ zk_in.recursion_data.next_keys_root = zk_in.proof_data.current_keys_root
        /\ zk_out.current_keys_root = zk_in.recursion_data.current_keys_root
        /\ zk_out.next_keys_root = zk_in.proof_data.next_keys_root

\* an accepted recursive step whose previous proof started from another root
C19_Witness ==
    /\ zk_res = "commit"
    /\ zk_in.recursion_data # None
    /\ zk_in.recursion_data.current_keys_root # zk_in.recursion_data.next_keys_root

(***************************************************************************)
(* C20: every accepted transition has next_period = (slot >> 13) + 1, and  *)
(* in a recursive proof the previous proof's next_period equals slot >> 13 *)
(* of the current step: successive aggregated transitions advance the      *)
(* period by exactly one.                                                  *)
(***************************************************************************)
C20_PeriodArithmetic ==
    zk_res = "commit" =>
        LET slot == from_le_bytes(zk_in.proof_data.slot_bytes)
            rec == zk_in.recursion_data
        IN /\ zk_in.proof_data.next_period = (slot \div 8192) + 1
           /\ zk_out.next_period = zk_in.proof_data.next_period
           /\ rec # None =>
                 /\ rec.next_period = slot \div 8192
                 /\ zk_out.next_period = rec.next_period + 1

\* an accepted recursive step at the last slot of a period after period 0
C20_Witness ==
    /\ zk_res = "commit"
    /\ zk_in.recursion_data # None
    /\ from_le_bytes(zk_in.proof_data.slot_bytes) % 8192 = 8191
    /\ zk_in.recursion_data.next_period >= 1

(***************************************************************************)
(* Storage registration: register_global_storage (storage/ffi.rs), called  *)
(* by every ColibriClient::new, and register_storage (lib.rs).  A          *)
(* registration is a sequence of steps of the calling thread; the steps of *)
(* different threads interleave.                                           *)
(***************************************************************************)
MaxThreads == 2
MaxBackends == 2

Threads == 1..MaxThreads
\* the back-ends handed to the registration calls
Backends == 1..MaxBackends

\* GLOBAL_STORAGE.set(..): a OnceLock keeps its first value
OnceLockSet(cell, v) == IF cell = 0 THEN v ELSE cell

\* ffi.rs:78  let _ = GLOBAL_STORAGE.set(Arc::new(Mutex::new(storage)))
RegisterGlobalStorage(t) ==
    /\ binding = "ffi"
    /\ reg[t].pc = "idle"
    /\ \E s \in Backends :
        /\ GLOBAL_STORAGE' = OnceLockSet(GLOBAL_STORAGE, s)
        /\ reg' = [reg EXCEPT ![t] = [pc |-> "check", storage |-> s]]
    /\ UNCHANGED <<binding, STORAGE_REGISTERED_WITH_C, STORAGE_IMPL, STORAGE_SET, c_plugin,
                   installs, driverVars, bridgeVars, dirVars, zkVars, storVars, trackVars, stopVars>>

\* ffi.rs:81  if !STORAGE_REGISTERED_WITH_C: a plain read of a static mut
RegisterGlobalStorageCheck(t) ==
    /\ reg[t].pc = "check"
    /\ reg' = [reg EXCEPT ![t] = IF STORAGE_REGISTERED_WITH_C THEN NoReg
                                  ELSE [@ EXCEPT !.pc = "install"]]
    /\ UNCHANGED <<binding, GLOBAL_STORAGE, STORAGE_REGISTERED_WITH_C, STORAGE_IMPL, STORAGE_SET,
                   c_plugin, installs, driverVars, bridgeVars, dirVars, zkVars, storVars,
                   trackVars, stopVars>>

\* ffi.rs:82-88  c4_set_storage_config(&mut plugin)
RegisterGlobalStorageInstall(t) ==
    /\ reg[t].pc = "install"
    /\ c_plugin' = "ffi"
    /\ installs' = installs + 1
    /\ reg' = [reg EXCEPT ![t].pc = "flag"]
    /\ UNCHANGED <<binding, GLOBAL_STORAGE, STORAGE_REGISTERED_WITH_C, STORAGE_IMPL, STORAGE_SET,
                   driverVars, bridgeVars, dirVars, zkVars, storVars, trackVars, stopVars>>

\* ffi.rs:89  STORAGE_REGISTERED_WITH_C = true
RegisterGlobalStorageFlag(t) ==
    /\ reg[t].pc = "flag"
    /\ STORAGE_REGISTERED_WITH_C' = TRUE
    /\ reg' = [reg EXCEPT ![t] = NoReg]
    /\ UNCHANGED <<binding, GLOBAL_STORAGE, STORAGE_IMPL, STORAGE_SET, c_plugin, installs,
                   driverVars, bridgeVars, dirVars, zkVars, storVars, trackVars, stopVars>>

\* lib.rs:232-234  *w = Some(Arc::new(storage)) under the write lock
RegisterStorage(t) ==
    /\ binding = "lib"
    /\ reg[t].pc = "idle"
    /\ \E s \in Backends :
        /\ STORAGE_IMPL' = s
        /\ reg' = [reg EXCEPT ![t] = [pc |-> "bridge", storage |-> s]]
    /\ UNCHANGED <<binding, GLOBAL_STORAGE, STORAGE_REGISTERED_WITH_C, STORAGE_SET, c_plugin,
                   installs, driverVars, bridgeVars, dirVars, zkVars, storVars, trackVars, stopVars>>

\* lib.rs:218  STORAGE_SET.compare_exchange(false, true, SeqCst, SeqCst).is_ok()
EnsureStorageBridge(t) ==
    /\ reg[t].pc = "bridge"
    /\ STORAGE_SET' = TRUE
    /\ reg' = [reg EXCEPT ![t] = IF STORAGE_SET THEN NoReg ELSE [@ EXCEPT !.pc = "config"]]
    /\ UNCHANGED <<binding, GLOBAL_STORAGE, STORAGE_REGISTERED_WITH_C, STORAGE_IMPL, c_plugin,
                   installs, driverVars, bridgeVars, dirVars, zkVars, storVars, trackVars, stopVars>>

\* lib.rs:219-227  c4_set_storage_config(&mut plugin)
EnsureStorageBridgeInstall(t) ==
    /\ reg[t].pc = "config"
    /\ c_plugin' = "lib"
    /\ installs' = installs + 1
    /\ reg' = [reg EXCEPT ![t] = NoReg]
    /\ UNCHANGED <<binding, GLOBAL_STORAGE, STORAGE_REGISTERED_WITH_C, STORAGE_IMPL, STORAGE_SET,
                   driverVars, bridgeVars, dirVars, zkVars, storVars, trackVars, stopVars>>

RegNext ==
    \E t \in Threads :
        \/ RegisterGlobalStorage(t)
        \/ RegisterGlobalStorageCheck(t)
        \/ RegisterGlobalStorageInstall(t)
        \/ RegisterGlobalStorageFlag(t)
        \/ RegisterStorage(t)
        \/ EnsureStorageBridge(t)
        \/ EnsureStorageBridgeInstall(t)

\* a process that registered nothing yet, linked against one of the two bindings
RegSpecInit ==
    /\ binding \in {"ffi", "lib"}
    /\ GLOBAL_STORAGE = 0
    /\ STORAGE_REGISTERED_WITH_C = FALSE
    /\ STORAGE_IMPL = 0
    /\ STORAGE_SET = FALSE
    /\ c_plugin = "none"
    /\ installs = 0
    /\ reg = [t \in Threads |-> NoReg]
    /\ StorIdle /\ TrackNew /\ StopIdle /\ ZkIdle /\ DriverIdle /\ BridgeIdle /\ DirEmpty

SpecReg == RegSpecInit /\ [][RegNext]_vars

\* the back-end the storage callbacks reach: GLOBAL_STORAGE.get() (ffi.rs:24),
\* STORAGE_IMPL.read() (lib.rs:182)
CallbackBackend == IF c_plugin = "ffi" THEN GLOBAL_STORAGE
                   ELSE IF c_plugin = "lib" THEN STORAGE_IMPL ELSE 0

\* C25: for any number of registration calls, concurrent ones included, the
\* C library's storage plugin is installed at most once, and once it is
\* installed its callbacks reach a registered back-end.
C25_InstalledOnce ==
    /\ installs <= 1
    /\ c_plugin # "none" => CallbackBackend # 0

(***************************************************************************)
(* The storage back-ends of the bindings (storage/mod.rs): MemoryStorage,  *)
(* a HashMap behind a Mutex, and FileStorage, one file per key.  Keys are  *)
(* strings (sequences of characters), values byte strings; an              *)
(* Option<Vec<u8>> is a sequence of at most one value.                     *)
(***************************************************************************)
Absent == <<>>
Some(v) == <<v>>

\* string keys: "", "a", "/", "a/"
Keys == {<<>>, <<"a">>, <<"/">>, <<"a", "/">>}
\* values: non-empty byte strings
Values == {<<1>>, <<2, 2>>}

\* HashMap / directory operations
Lookup(m, k) == IF k \in DOMAIN m THEN Some(m[k]) ELSE Absent
Insert(m, k, v) == [x \in DOMAIN m \cup {k} |-> IF x = k THEN v ELSE m[x]]
Remove(m, k) == [x \in DOMAIN m \ {k} |-> m[x]]

\* mod.rs:91  c.is_alphanumeric() || c == '.' || c == '_' || c == '-'
is_safe(c) == c \in {"a", ".", "_", "-"}

\* mod.rs:88-101  FileStorage::get_file_path, without the base_dir
get_file_path(key) ==
    LET safe_key == SelectSeq(key, is_safe)
    IN  (IF safe_key = <<>> THEN <<"e", "m", "p", "t", "y">> ELSE safe_key)
            \o <<".", "d", "a", "t">>

\* mod.rs:53-55  MemoryStorage::get, under the lock
MemoryGet ==
    /\ backend = "memory"
    /\ \E k \in Keys :
        got' = [key |-> k, res |-> Lookup(mem_data, k), expect |-> Lookup(latest, k),
                racing |-> "none", old |-> Absent, new |-> Absent]
    /\ UNCHANGED <<backend, mem_data, fs_files, wr, latest, driverVars, bridgeVars, dirVars,
                   zkVars, regVars, trackVars, stopVars>>

\* mod.rs:57-59  MemoryStorage::set, under the lock
MemorySet ==
    /\ backend = "memory"
    /\ \E k \in Keys, v \in Values :
        /\ mem_data' = Insert(mem_data, k, v)
        /\ latest' = Insert(latest, k, v)
    /\ UNCHANGED <<backend, fs_files, wr, got, driverVars, bridgeVars, dirVars, zkVars,
                   regVars, trackVars, stopVars>>

\* mod.rs:61-63  MemoryStorage::delete, under the lock
MemoryDelete ==
    /\ backend = "memory"
    /\ \E k \in Keys :
        /\ mem_data' = Remove(mem_data, k)
        /\ latest' = Remove(latest, k)
    /\ UNCHANGED <<backend, fs_files, wr, got, driverVars, bridgeVars, dirVars, zkVars,
                   regVars, trackVars, stopVars>>

\* mod.rs:105-108  FileStorage::get: fs::read(path).ok().  A get may run
\* while the fs::write of a set is between its two steps.
FileGet ==
    /\ backend = "file"
    /\ \E k \in Keys :
        got' = [key |-> k, res |-> Lookup(fs_files, get_file_path(k)),
                expect |-> Lookup(latest, k),
                racing |-> IF wr.pc = "idle" THEN "none"
                           ELSE IF wr.key = k THEN "same" ELSE "other",
                old |-> wr.old,
                new |-> IF wr.pc = "idle" THEN Absent ELSE Some(wr.value)]
    /\ UNCHANGED <<backend, mem_data, fs_files, wr, latest, driverVars, bridgeVars, dirVars,
                   zkVars, regVars, trackVars, stopVars>>

\* mod.rs:110-113  FileStorage::set, first step of fs::write(path, value):
\* File::create opens the file and truncates it
FileSetCreate ==
    /\ backend = "file"
    /\ wr.pc = "idle"
    /\ \E k \in Keys, v \in Values :
        /\ fs_files' = Insert(fs_files, get_file_path(k), <<>>)
        /\ wr' = [pc |-> "created", key |-> k, value |-> v,
                  old |-> Lookup(fs_files, get_file_path(k))]
    /\ UNCHANGED <<backend, mem_data, got, latest, driverVars, bridgeVars, dirVars, zkVars,
                   regVars, trackVars, stopVars>>

\* second step of fs::write: write_all(value); the set returns
FileSetWrite ==
    /\ backend = "file"
    /\ wr.pc = "created"
    /\ fs_files' = Insert(fs_files, get_file_path(wr.key), wr.value)
    /\ latest' = Insert(latest, wr.key, wr.value)
    /\ wr' = NoWrite
    /\ UNCHANGED <<backend, mem_data, got, driverVars, bridgeVars, dirVars, zkVars, regVars,
                   trackVars, stopVars>>

\* mod.rs:115-118  FileStorage::delete: fs::remove_file(path)
FileDelete ==
    /\ backend = "file"
    /\ wr.pc = "idle"
    /\ \E k \in Keys :
        /\ fs_files' = Remove(fs_files, get_file_path(k))
        /\ latest' = Remove(latest, k)
    /\ UNCHANGED <<backend, mem_data, wr, got, driverVars, bridgeVars, dirVars, zkVars,
                   regVars, trackVars, stopVars>>

StorNext ==
    \/ MemoryGet
    \/ MemorySet
    \/ MemoryDelete
    \/ FileGet
    \/ FileSetCreate
    \/ FileSetWrite
    \/ FileDelete

\* MemoryStorage::new, or FileStorage::new on an empty directory
StorSpecInit ==
    /\ backend \in {"memory", "file"}
    /\ mem_data = [k \in {} |-> <<>>]
    /\ fs_files = [f \in {} |-> <<>>]
    /\ wr = NoWrite
    /\ got = NoGet
    /\ latest = [k \in {} |-> <<>>]
    /\ RegIdle /\ TrackNew /\ StopIdle /\ ZkIdle /\ DriverIdle /\ BridgeIdle /\ DirEmpty

SpecStor == StorSpecInit /\ [][StorNext]_vars

\* C26: MemoryStorage and FileStorage are key-to-bytes maps: a get(k) that
\* runs when no set is in flight returns the value of the most recent set(k)
\* not followed by a delete(k), and None otherwise.
C26_KeyToBytesMap == got.racing = "none" => got.res = got.expect

\* C27: a get that runs concurrently with a set on the same key returns the
\* complete old value or the complete new value.
C27_NoTornValue == got.racing = "same" => got.res \in {got.old, got.new}

(***************************************************************************)
(* BlockDeduplicator on its own: any sequence of is_duplicate calls.  The  *)
(* block numbers offered are the next new one, the lowest one ever seen    *)
(* (block 1, long pruned) and the highest one held (a duplicate).          *)
(***************************************************************************)
MaxDedupBlock == 310

Highest(S) == IF S = {} THEN 0 ELSE CHOOSE m \in S : \A n \in S : n <= m

DedupInputs == {n \in {1, Highest(processed_blocks), Highest(processed_blocks) + 1} :
                    n >= 1 /\ n <= MaxDedupBlock}

\* types.rs:73-92  one call of BlockDeduplicator::is_duplicate
IsDuplicate ==
    /\ \E n \in DedupInputs :
        /\ processed_blocks' = is_duplicate_set(processed_blocks, n)
        /\ ev' = [k |-> IF is_duplicate(processed_blocks, n) THEN "duplicate" ELSE "new", b |-> n]
    /\ UNCHANGED <<current_mode, consecutive_failures, failure_threshold,
                   consecutive_success_blocks, http_pc, last_data_hash, last_block_number,
                   gossip_on, gossip_latest, fail_run, gapless_run, par,
                   driverVars, dirVars, zkVars, regVars, storVars, trackVars, stopVars>>

\* BlockDeduplicator::new
DedupSpecInit == BridgeIdle /\ DirEmpty /\ DriverIdle /\ ZkIdle /\ RestIdle

SpecDedup == DedupSpecInit /\ [][IsDuplicate]_vars

\* C28: after any sequence of is_duplicate calls the deduplicator holds at
\* most 200 block numbers.
C28_AtMostMaxSize == Cardinality(processed_blocks) <= DedupMaxSize

\* more than 200 numbers were offered, the set was pruned and has filled up again
C28_Witness ==
    /\ Cardinality(processed_blocks) = DedupMaxSize
    /\ Highest(processed_blocks) > DedupMaxSize
    /\ ev.k = "new"

(***************************************************************************)
(* kona_bridge: BlockBitmaskTracker (types.rs).  current_mask is a u64; it *)
(* is held as the set of its set bit positions, bit i standing for block   *)
(* current_offset + i.                                                     *)
(***************************************************************************)
MaskBits == 64
MaxTrackBlock == 140

\* types.rs:152-169  count_gaps_in_mask: the clear bits below the highest set one
count_gaps_in_mask(mask) ==
    IF mask = {} THEN 0
    ELSE LET highest_bit == Highest(mask)
         IN  Cardinality({i \in 0..highest_bit : i \notin mask})

\* types.rs:136-149  finalize_current_bitmask: the new total_gaps_found
finalize_current_bitmask(total, mask) == total + count_gaps_in_mask(mask)

\* types.rs:172-180  get_total_gaps
get_total_gaps(total, mask) ==
    IF mask # {} THEN total + count_gaps_in_mask(mask) ELSE total

\* types.rs:104-133  mark_block_processed
MarkBlockProcessed(block_number) ==
    /\ marked' = marked \cup {block_number}
    /\ IF current_offset = 0
       THEN /\ current_offset' = block_number
            /\ current_mask' = {0}
            /\ UNCHANGED total_gaps_found
       ELSE IF block_number >= current_offset /\ block_number < current_offset + MaskBits
       THEN /\ current_mask' = current_mask \cup {block_number - current_offset}
            /\ UNCHANGED <<current_offset, total_gaps_found>>
       ELSE IF block_number >= current_offset + MaskBits
       THEN /\ total_gaps_found' = finalize_current_bitmask(total_gaps_found, current_mask)
            /\ current_offset' = block_number
            /\ current_mask' = {0}
       ELSE UNCHANGED <<current_offset, current_mask, total_gaps_found>>
    /\ UNCHANGED <<driverVars, bridgeVars, dirVars, zkVars, regVars, storVars, stopVars>>

\* the blocks a source delivers: the next one, the one after it where the
\* source drops a block, and the one before the highest, late. The dropped
\* blocks lie inside the first window, at its end and inside the second one.
SkippedBlocks == {5, 64, 70}
TrackInputs ==
    LET hi == Highest(marked)
    IN  {n \in {hi + 1, hi + 2, hi - 1} :
            /\ n >= 1 /\ n <= MaxTrackBlock
            /\ n = hi + 2 => hi + 1 \in SkippedBlocks}

TrackNext == \E n \in TrackInputs : MarkBlockProcessed(n)

TrackSpecInit ==
    /\ TrackNew /\ RegIdle /\ StorIdle /\ StopIdle
    /\ ZkIdle /\ DriverIdle /\ BridgeIdle /\ DirEmpty

SpecTrack == TrackSpecInit /\ [][TrackNext]_vars

\* the block numbers whose bit is set in the mask
TrackedBlocks == {current_offset + i : i \in current_mask}

\* C29: after any sequence of processed blocks the bitmask covers the last 64
\* block numbers up to the highest processed block, with a bit set exactly
\* for the block numbers of that range that were processed.
C29_CoversLast64 ==
    TrackedBlocks = {n \in marked : n + MaskBits > Highest(marked)}

(***************************************************************************)
(* ColibriClient::prove / verify against a driver that follows the retry   *)
(* policy of specification 4.4 to the letter: every request that failed is *)
(* re-emitted with the index recorded by set_error added to its mask, the  *)
(* re-emission taking the handle of the request it replaces, until the     *)
(* mask covers every configured server.                                    *)
(***************************************************************************)
Errored == {h \in DOMAIN reqs : reqs[h].slot = "error"}

ReEmit == [h \in DOMAIN reqs |-> IF h \in Errored THEN RetryReq(h) ELSE reqs[h]]

DriverExecuteRetry ==
    IF drv_status = "pending" /\ Unresolved = {} /\ Exhausted = {} /\ Errored # {}
    THEN {[status |-> "pending", reqs |-> ReEmit, message |-> NoMsg]}
    ELSE DriverExecute

ClientExecuteRetry == ClientExecuteOn(DriverExecuteRetry)

ClientNext ==
    \/ ClientExecuteRetry
    \/ ClientRequest

\* a prover or verifier of ColibriClient, just created
ClientSpecInit ==
    /\ DriverInit
    /\ host = "client"
    /\ BridgeIdle /\ DirEmpty /\ ZkIdle /\ RestIdle

SpecClient == ClientSpecInit /\ [][ClientNext]_vars

\* the loop of prove / verify keeps running: each of its two steps is taken
\* when it is enabled
FairSpecClient == SpecClient /\ WF_vars(ClientExecuteRetry) /\ WF_vars(ClientRequest)

\* C30: whatever the configured servers do, ColibriClient::prove and
\* ColibriClient::verify return success or an error after finitely many
\* driver steps.
C30_ProveReturns == <>(host_pc = "done")

(***************************************************************************)
(* Colibri::create_proof / verify_proof (lib.rs) against the driver that   *)
(* re-emits every failed request: drive_proofer_ctx and drive_verify_ctx   *)
(* count the trips of their loop.                                          *)
(***************************************************************************)
\* a proof that needs one logical request: the driver emits one request and
\* re-emits it when it failed
SingleRequest == {d \in DriverExecuteRetry : Len(d.reqs) <= 1}

ColibriExecuteRetry == ColibriExecuteOn(SingleRequest)

ColibriNext ==
    \/ ColibriExecuteRetry
    \/ ColibriRequest

\* a proofer or verifier context of Colibri, just created
\* with every server list full and no remote proofer
ColibriSpecInit ==
    /\ DriverInit
    /\ host = "colibri"
    /\ cfg["beacon_apis"] = MaxServers
    /\ cfg["proofer_urls"] = 0
    /\ BridgeIdle /\ DirEmpty /\ ZkIdle /\ RestIdle

SpecColibri == ColibriSpecInit /\ [][ColibriNext]_vars

\* C31: a run of create_proof / verify_proof steps the driver at most 500
\* times: the loop makes at most 501 trips, and the 501st does not step the
\* driver but ends the run with "exceeded max iterations".
C31_AtMost500Steps ==
    /\ iterations <= MaxIterations + 1
    /\ iterations = MaxIterations + 1 =>
          /\ host_pc = "done"
          /\ host_result = "err"
          /\ host_message = ExceededMaxIterations
          /\ drv_status = "pending"

\* the driver was stepped 500 times without a terminal status
C31_Witness ==
    /\ iterations = MaxIterations + 1
    /\ host_message = ExceededMaxIterations

(***************************************************************************)
(* The recursion step of the guest program (main.rs:59-81): the previous   *)
(* proof is in the prover's input stream, RecursionData names the          *)
(* verifying key and the digest to check it under and carries the public   *)
(* values.                                                                 *)
(***************************************************************************)
\* verifying-key hashes: of this guest program, and of another program
Vkeys == {"eth-sync-program", "other-program"}

\* Sha256 over the serialized public values
Sha256Values(v) ==
    sha256_merkle(sha256_merkle(v.current_keys_root, v.next_keys_root), v.next_period)

\* sp1_zkvm::lib::verify::verify_sp1_proof(vkey_hash, digest): a proof under
\* that verifying key with those public values is in the input stream
verify_sp1_proof(vkey_hash, digest, proof) ==
    /\ proof.vk = vkey_hash
    /\ Sha256Values(proof.public_values) = digest

\* the proofs the host may write: of either program, with any public values
PrevProofs == [vk : Vkeys, public_values : VerificationOutputs]

\* the RecursionData the host may pass with proof p: as script/src/main.rs
\* builds it, or with other public values or their digest
RecursionDatas(p) ==
    LET other == [p.public_values EXCEPT !.next_period = (@ + 1) % (MaxPeriod + 2)]
    IN  {[vkey_hash |-> k, public_values_digest |-> Sha256Values(d), public_values |-> v] :
            k \in Vkeys, d \in {p.public_values, other}, v \in {p.public_values, other}}

\* main.rs:59-81: what the recursion checks before the continuity checks find
RecFault(rd, proof) ==
    IF ~ verify_sp1_proof(rd.vkey_hash, rd.public_values_digest, proof)
    THEN "verify_sp1_proof"
    ELSE IF Sha256Values(rd.public_values) # rd.public_values_digest
    THEN "Public Values Hash Mismatch"
    ELSE "none"

\* one recursive run
ZkRecursive ==
    /\ zk_res = "none"
    /\ \E pd \in ChainUpdates, proof \in PrevProofs :
        \E rd \in RecursionDatas(proof) :
          Run([proof_data |-> pd, recursion_data |-> rd.public_values,
               fault |-> RecFault(rd, proof), rec_data |-> rd, prev_proof |-> proof])
    /\ UNCHANGED zk_chain

SpecZkRec == ZkSpecInit /\ [][ZkRecursive]_vars

\* C32: an aggregated proof is accepted only if the previous proof it builds
\* on was produced by this guest program: a run whose RecursionData names
\* another verifying key does not commit.
C32_OwnVkeyOnly ==
    zk_res = "commit" => zk_in.rec_data.vkey_hash = "eth-sync-program"

\* C33: the bridge switches to gossip-fallback only if the last
\* failure_threshold HTTP polls all failed: any successful poll in between,
\* also one that returns the payload already seen, starts the count anew.
C33_SwitchOnlyAfterFailedPolls ==
    [][current_mode # "GossipFallback" /\ current_mode' = "GossipFallback"
          => fail_run' >= failure_threshold']_vars

\* C34: at any time at most one gossip network instance runs for a bridge:
\* the gossip-fallback network is not started while the backup task spawned
\* in HTTP+gossip mode is still running.
C34_OneGossipInstance == Cardinality(gossip_on) <= 1

\* C35: over any run of the bridge the block number of the file latest.raw
\* points to never decreases.
C35_LatestNeverDecreases ==
    [][LinkTarget(dir, Latest) # 0 /\ LinkTarget(dir', Latest) # 0
          => LinkTarget(dir', Latest) >= LinkTarget(dir, Latest)]_vars


(***************************************************************************)
(* The block file while it is written: tokio_fs::write of                  *)
(* process_http_preconf creates or truncates the file and then fills it    *)
(* (http.rs); process_preconf_with_correct_format writes a .tmp file and   *)
(* renames it over the block file (processing.rs).                         *)
(***************************************************************************)
\* the target field of a block file that was truncated and is not yet filled
Truncated == -1

\* tokio_fs::write, first half: File::create opens the path with truncation
HttpCreateBlock ==
    /\ upd.pc = "idle"
    /\ \E b \in 1..MaxFileBlock :
          /\ dir' = [x \in DOMAIN dir \cup {Raw(b)} |->
                        IF x = Raw(b) THEN [mtime |-> now, target |-> Truncated]
                        ELSE dir[x]]
          /\ upd' = [pc |-> "fill", b |-> b, prev |-> 0]
    /\ UNCHANGED <<now, ttl_duration, cleaned, driverVars, bridgeVars, zkVars, regVars, storVars, trackVars, stopVars>>

\* tokio_fs::write, second half: write_all of the payload, then the
\* directory scan of update_symlinks_lib
HttpFillBlock ==
    /\ upd.pc = "fill"
    /\ LET d    == write(dir, Raw(upd.b), now)
           prev == find_previous_block_file(d)
       IN  /\ dir' = d
           /\ upd' = [pc |-> IF prev # 0 THEN "rm_pre" ELSE "rm_latest",
                      b |-> upd.b, prev |-> prev]
    /\ UNCHANGED <<now, ttl_duration, cleaned, driverVars, bridgeVars, zkVars, regVars, storVars, trackVars, stopVars>>

\* tokio_fs::rename(&temp_filepath, &filepath): the complete file takes the
\* place of the block file in one step; then the directory scan
GossipRenameBlock ==
    /\ upd.pc = "idle"
    /\ \E b \in 1..MaxFileBlock :
          LET d    == write(dir, Raw(b), now)
              prev == find_previous_block_file(d)
          IN  /\ dir' = d
              /\ upd' = [pc |-> IF prev # 0 THEN "rm_pre" ELSE "rm_latest",
                         b |-> b, prev |-> prev]
    /\ UNCHANGED <<now, ttl_duration, cleaned, driverVars, bridgeVars, zkVars, regVars, storVars, trackVars, stopVars>>

PayloadNext ==
    \/ HttpCreateBlock
    \/ HttpFillBlock
    \/ GossipRenameBlock
    \/ RemovePreLatest
    \/ LinkPreLatest
    \/ RemoveLatest
    \/ LinkLatest
    \/ WriteJson
    \/ Tick

\* both writers on one directory
SpecPayload == FilesSpecInit /\ [][PayloadNext]_vars

\* C36: a reader that resolves latest.raw or pre_latest.raw at any instant
\* reads a completely written payload file: no block file is modified in
\* place while a symlink points to it, also when HTTP and gossip both write
\* the same block number.
C36_ReaderSeesWholeFile ==
    \A link \in {Latest, PreLatest} :
        (link \in DOMAIN dir /\ Raw(dir[link].target) \in DOMAIN dir)
            => dir[Raw(dir[link].target)].target # Truncated


\* C37: TTL cleanup never deletes the block file that latest.raw or
\* pre_latest.raw currently points to, so once created both symlinks always
\* resolve to an existing file.
C37_LinksResolve ==
    \A link \in {Latest, PreLatest} :
        link \in DOMAIN dir => Raw(dir[link].target) \in DOMAIN dir


(***************************************************************************)
(* kona_bridge: the bridge thread and its stop (lib.rs, http.rs,           *)
(* gossip.rs, utils.rs). The thread blocks on the main future; the cleanup *)
(* task and the gossip backup task are spawned on its runtime.             *)
(***************************************************************************)
OtherVars == <<driverVars, bridgeVars, dirVars, zkVars, regVars, storVars, trackVars>>

\* the loops never look at the flag
Stopped_never(flag) == FALSE
\* `!*running.lock().unwrap()`: the test at the head of each loop and the
\* one after its wait
Stopped(flag) == ~flag

Ended == {"off", "exited", "returned", "aborted", "dropped"}

Goto(t, pc) == task_pc' = [task_pc EXCEPT ![t] = pc]

\* where a gossip loop goes when run_gossip_network returns: the spawned
\* task ends, the main future returns
GossipEnd(t) == IF t = "http" THEN "returned" ELSE "exited"

\* while *running.lock().unwrap() {
HttpLoopHead ==
    /\ task_pc["http"] = "head"
    /\ Goto("http", IF Stopped(running) THEN "stopped" ELSE "wait")
    /\ UNCHANGED <<running, stop_pc, thread_pc, OtherVars>>

\* interval_timer.tick().await; if !*running.lock().unwrap() { break; }
HttpLoopWake ==
    /\ task_pc["http"] = "wait"
    /\ Goto("http", IF Stopped(running) THEN "stopped" ELSE "body")
    /\ UNCHANGED <<running, stop_pc, thread_pc, OtherVars>>

\* the rest of one trip: the poll goes on, or breaks at the failure
\* threshold, or spawns the gossip backup task, or aborts it
HttpLoopBody ==
    /\ task_pc["http"] = "body"
    /\ \/ Goto("http", "head")
       \/ Goto("http", "switch")
       \/ /\ task_pc["backup"] \in Ended
          /\ task_pc' = [task_pc EXCEPT !["http"] = "head", !["backup"] = "g_start"]
       \/ /\ task_pc["backup"] \notin Ended
          /\ task_pc' = [task_pc EXCEPT !["http"] = "head", !["backup"] = "aborted"]
    /\ UNCHANGED <<running, stop_pc, thread_pc, OtherVars>>

\* after the loop: with the flag still set and the mode GossipFallback, run
\* run_gossip_network inline; otherwise abort the backup task and return
HttpAfterLoop ==
    /\ task_pc["http"] \in {"stopped", "switch"}
    /\ IF task_pc["http"] = "switch" /\ ~Stopped(running)
       THEN Goto("http", "g_start")
       ELSE task_pc' = [task_pc EXCEPT
                          !["http"] = "returned",
                          !["backup"] = IF @ \in Ended THEN @ ELSE "aborted"]
    /\ UNCHANGED <<running, stop_pc, thread_pc, OtherVars>>

\* run_gossip_network up to its loop: the network starts, or `?` returns
GossipStart(t) ==
    /\ task_pc[t] = "g_start"
    /\ \/ Goto(t, "g_head")
       \/ Goto(t, GossipEnd(t))
    /\ UNCHANGED <<running, stop_pc, thread_pc, OtherVars>>

GossipLoopHead(t) ==
    /\ task_pc[t] = "g_head"
    /\ Goto(t, IF Stopped(running) THEN GossipEnd(t) ELSE "g_wait")
    /\ UNCHANGED <<running, stop_pc, thread_pc, OtherVars>>

\* tokio::time::sleep(2 s).await; if !*running.lock().unwrap() { break; }
GossipLoopWake(t) ==
    /\ task_pc[t] = "g_wait"
    /\ Goto(t, IF Stopped(running) THEN GossipEnd(t) ELSE "g_body")
    /\ UNCHANGED <<running, stop_pc, thread_pc, OtherVars>>

\* try_recv: a payload, Empty or Lagged go on; Closed breaks
GossipLoopBody(t) ==
    /\ task_pc[t] = "g_body"
    /\ \/ Goto(t, "g_head")
       \/ Goto(t, GossipEnd(t))
    /\ UNCHANGED <<running, stop_pc, thread_pc, OtherVars>>

GossipStep ==
    \E t \in {"http", "backup"} :
        GossipStart(t) \/ GossipLoopHead(t) \/ GossipLoopWake(t) \/ GossipLoopBody(t)

\* cleanup_old_files
CleanupLoopHead ==
    /\ task_pc["cleanup"] = "head"
    /\ Goto("cleanup", IF Stopped(running) THEN "exited" ELSE "wait")
    /\ UNCHANGED <<running, stop_pc, thread_pc, OtherVars>>

CleanupLoopWake ==
    /\ task_pc["cleanup"] = "wait"
    /\ Goto("cleanup", IF Stopped(running) THEN "exited" ELSE "body")
    /\ UNCHANGED <<running, stop_pc, thread_pc, OtherVars>>

\* sleep(60 s), cleanup_expired_files
CleanupLoopBody ==
    /\ task_pc["cleanup"] = "body"
    /\ Goto("cleanup", "head")
    /\ UNCHANGED <<running, stop_pc, thread_pc, OtherVars>>

\* rt.block_on returns with the main future; the closure ends and drops the
\* runtime, which drops the tasks still on it
ThreadFinish ==
    /\ thread_pc = "running"
    /\ task_pc["http"] = "returned"
    /\ thread_pc' = "finished"
    /\ task_pc' = [t \in Tasks |-> IF task_pc[t] \in Ended THEN task_pc[t] ELSE "dropped"]
    /\ UNCHANGED <<running, stop_pc, OtherVars>>

\* kona_bridge_stop: *running = false
KonaBridgeStop ==
    /\ stop_pc = "none"
    /\ running' = FALSE
    /\ stop_pc' = "joining"
    /\ UNCHANGED <<task_pc, thread_pc, OtherVars>>

\* kona_bridge_stop: thread_handle.join() returns
KonaBridgeStopJoin ==
    /\ stop_pc = "joining"
    /\ thread_pc = "finished"
    /\ stop_pc' = "returned"
    /\ UNCHANGED <<running, task_pc, thread_pc, OtherVars>>

\* kona_bridge_start has returned the handle: the flag is set, the thread
\* runs, the cleanup task is spawned and the poll loop is entered
StopInit ==
    /\ running = TRUE
    /\ stop_pc = "none"
    /\ task_pc = [t \in Tasks |-> IF t = "backup" THEN "off" ELSE "head"]
    /\ thread_pc = "running"

StopNext ==
    \/ HttpLoopHead
    \/ HttpLoopWake
    \/ HttpLoopBody
    \/ HttpAfterLoop
    \/ GossipStep
    \/ CleanupLoopHead
    \/ CleanupLoopWake
    \/ CleanupLoopBody
    \/ ThreadFinish
    \/ KonaBridgeStop
    \/ KonaBridgeStopJoin

StopSpecInit ==
    /\ StopInit /\ DriverIdle /\ BridgeIdle /\ DirEmpty /\ ZkIdle
    /\ RegIdle /\ StorIdle /\ TrackNew

SpecStop == StopSpecInit /\ [][StopNext]_vars

\* the runtime keeps polling every task that can go on, the thread's closure
\* runs to its end, join returns once the thread has finished
FairSpecStop ==
    /\ SpecStop
    /\ WF_vars(HttpLoopHead) /\ WF_vars(HttpLoopWake) /\ WF_vars(HttpLoopBody)
    /\ WF_vars(HttpAfterLoop) /\ WF_vars(GossipStep)
    /\ WF_vars(CleanupLoopHead) /\ WF_vars(CleanupLoopWake) /\ WF_vars(CleanupLoopBody)
    /\ WF_vars(ThreadFinish) /\ WF_vars(KonaBridgeStopJoin)

\* C38: after kona_bridge_stop is called on a running bridge the running
\* flag is false, and the HTTP polling loop, the gossip loop and the TTL
\* cleanup task each exit after finitely many further iterations, so the
\* bridge thread terminates and the stop call returns.
C38_StopTerminates ==
    /\ [](stop_pc # "none" => ~running)
    /\ (stop_pc = "joining") ~>
          (/\ stop_pc = "returned"
           /\ thread_pc = "finished"
           /\ \A t \in Tasks : task_pc[t] \in Ended)

\* stop has returned on a bridge whose backup task was running: the poll
\* loop left through the flag and the backup task was taken down
C38_Witness ==
    /\ stop_pc = "returned"
    /\ thread_pc = "finished"
    /\ task_pc["http"] = "returned"
    /\ task_pc["backup"] \in {"exited", "aborted", "dropped"}
    /\ task_pc["cleanup"] \in {"exited", "dropped"}


\* the first marked block: every sequence of TrackInputs starts with its
\* lowest block
Lowest(S) == CHOOSE m \in S : \A n \in S : m <= n

\* C39: after any sequence of mark_block_processed calls get_total_gaps
\* equals the number of block numbers strictly between the first and the
\* highest marked block that were never marked.
C39_TotalGapsExact ==
    marked # {} =>
        get_total_gaps(total_gaps_found, current_mask)
            = Cardinality({n \in Lowest(marked)..Highest(marked) : n \notin marked})

====
